---- MODULE Spec2Model ----
(***************************************************************************)
(* Wuddle engine: the tracked-project store (db.rs), project-URL detection *)
(* (forge/mod.rs), the update planner and the apply pipeline (lib.rs,      *)
(* install.rs), modelled as a state machine.                               *)
(*                                                                         *)
(* Strings the code takes apart are modelled by their parts:               *)
(*   - a URL is the record Url::parse yields: scheme, host (the tuple of   *)
(*     its dot-separated labels, lower case as Url::parse leaves them) and *)
(*     the path segments (the empty segment "" is what a trailing or       *)
(*     doubled "/" yields);                                                *)
(*   - a file name is the tuple of its tokens, "." being a token;          *)
(*   - Option<T> is a tuple: None is << >>, Some(x) is <<x>>.              *)
(***************************************************************************)
EXTENDS Integers, Sequences, FiniteSets, TLC

VARIABLES
    repos,        \* table repos: set of rows
    nextId,       \* AUTOINCREMENT counter of repos.id
    installs,     \* table installs: set of [repo_id, path, kind]
    rate_limits,  \* table rate_limits: set of [host, reset_epoch]
    token,        \* the process-wide GitHub credential holder is set
    now,          \* the clock, in seconds
    clones,       \* folders under Interface/AddOns that are git clones
    last,         \* what the last finished operation returned
    forge,        \* the forges: project -> its latest release, None without one
    disk,         \* the installation root: path -> content
    dlcache,      \* the download cache: cache path -> file
    relcache,     \* forge/mod.rs RELEASE_CACHE: cache key -> entry
    net,          \* the requests the apply call in progress has issued
    pass,         \* the check_updates_with_wow call in progress
    task,         \* its plan builds: slot -> state
    ap,           \* the apply_one call in progress
    pin,          \* input of the pure function under check
    pout          \* its result

storeVars == <<repos, nextId, installs, rate_limits>>
worldVars == <<token, now, forge, disk, dlcache>>
runVars == <<relcache, net, pass, task, ap>>
pureVars == <<pin, pout>>
vars == <<repos, nextId, installs, rate_limits, token, now, clones, last,
          forge, disk, dlcache, relcache, net, pass, task, ap, pin, pout>>

None == << >>
Some(x) == <<x>>
IsSome(o) == o # << >>
Unwrap(o) == o[1]

-----------------------------------------------------------------------------
(* Text helpers over the bounded universe of path segments.                *)

\* str::to_ascii_lowercase on the segments the model uses
Lower(s) ==
    CASE s = "O" -> "o"
      [] s = "N" -> "n"
      [] s = "Releases" -> "releases"
      [] s = "Latest" -> "latest"
      [] s = "Tags" -> "tags"
      [] s = "ZIP" -> "zip"
      [] s = "EXE" -> "exe"
      [] s = "DLL" -> "dll"
      [] s = "Exe" -> "exe"
      [] s = "VanillaFixes" -> "vanillafixes"
      [] s = "-DXVK" -> "-dxvk"
      [] s = "GitHub" -> "github"
      [] s = "HTTPS" -> "https"
      [] OTHER -> s

LowerSeq(s) == [i \in 1..Len(s) |-> Lower(s[i])]

eq_ignore_ascii_case(a, b) == Lower(a) = Lower(b)

\* name.ends_with(".git")
EndsWithGit(s) == s \in {"n.git", "N.git", ".git", "tags.git", "releases.git"}

\* name.truncate(name.len() - 4), for a name that ends with ".git"
TruncateGit(s) ==
    CASE s = "n.git" -> "n"
      [] s = "N.git" -> "N"
      [] s = ".git" -> ""
      [] s = "tags.git" -> "tags"
      [] s = "releases.git" -> "releases"
      [] OTHER -> s

GithubCom == <<"github", "com">>
GitlabCom == <<"gitlab", "com">>
CodebergOrg == <<"codeberg", "org">>
SelfHosted == <<"git", "example">>

MkUrl(scheme, host, segs) == [scheme |-> scheme, host |-> host, segs |-> segs]
\* a string Url::parse rejects (no scheme)
InvalidUrl == MkUrl("", << >>, <<"not a url">>)
\* the empty string
EmptyUrl == MkUrl("", << >>, << >>)

UrlParses(u) == u.scheme # ""

-----------------------------------------------------------------------------
(* forge/mod.rs: detect_repo                                               *)

NonEmptySeg(s) == s # ""

Front(s) == SubSeq(s, 1, Len(s) - 1)
LastOf(s) == s[Len(s)]

RECURSIVE PopLatest(_)
\* while segs.last() is "latest" (any case): segs.pop()
PopLatest(segs) ==
    IF Len(segs) > 0 /\ eq_ignore_ascii_case(LastOf(segs), "latest")
    THEN PopLatest(Front(segs))
    ELSE segs

\* if the last two segments are "-" and word (any case), drop both
DropDashPair(segs, word) ==
    IF Len(segs) >= 2 /\ segs[Len(segs) - 1] = "-"
         /\ eq_ignore_ascii_case(LastOf(segs), word)
    THEN SubSeq(segs, 1, Len(segs) - 2)
    ELSE segs

DropTrailingTags(segs) ==
    IF Len(segs) > 0 /\ eq_ignore_ascii_case(LastOf(segs), "tags")
    THEN Front(segs)
    ELSE segs

\* lines 124-154: what applies to three segments or more
NormalizeTail(s1) ==
    IF Len(s1) >= 3
    THEN DropTrailingTags(DropDashPair(DropDashPair(PopLatest(s1), "releases"), "tags"))
    ELSE s1

\* lines 118-154: the suffix normalisation
NormalizeSegs(segs0) ==
    NormalizeTail(IF Len(segs0) >= 3 /\ eq_ignore_ascii_case(segs0[3], "releases")
                  THEN SubSeq(segs0, 1, 2) ELSE segs0)

\* url.path().contains("/-/"): a segment "-" that another segment follows
PathContainsDash(rawsegs) ==
    \E i \in 1..(Len(rawsegs) - 1) : rawsegs[i] = "-"

\* lines 157-170
ForgeKindOf(host, rawsegs) ==
    IF host = GithubCom THEN "GitHub"
    ELSE IF host = GitlabCom THEN "GitLab"
    ELSE IF host = CodebergOrg THEN "Gitea"
    ELSE IF PathContainsDash(rawsegs) THEN "GitLab"
    ELSE "Gitea"

DetectErr(msg) == [ok |-> FALSE, err |-> msg]

\* lines 182-184, 211-215
StripGit(s) == IF EndsWithGit(s) THEN TruncateGit(s) ELSE s

\* lines 172-233: the record for the normalised segments
Detected(input, kind, segs) ==
    IF Len(segs) < 2 THEN DetectErr("Expected URL like https://host/owner/repo")
    ELSE IF kind \in {"GitHub", "Gitea"}
    THEN [ok |-> TRUE, kind |-> kind,
          forge_str |-> IF kind = "GitHub" THEN "github" ELSE "gitea",
          host |-> input.host, owner |-> <<segs[1]>>, name |-> StripGit(segs[2]),
          canonical_url |-> MkUrl(input.scheme, input.host, <<segs[1], StripGit(segs[2])>>),
          project_path |-> <<segs[1], StripGit(segs[2])>>]
    ELSE [ok |-> TRUE, kind |-> kind, forge_str |-> "gitlab",
          host |-> input.host, owner |-> Front(segs), name |-> StripGit(LastOf(segs)),
          canonical_url |-> MkUrl(input.scheme, input.host,
                                  Append(Front(segs), StripGit(LastOf(segs)))),
          project_path |-> Append(Front(segs), StripGit(LastOf(segs)))]

\* forge::detect_repo
detect_repo(input) ==
    IF ~UrlParses(input) THEN DetectErr("invalid URL")
    ELSE IF input.host = << >> THEN DetectErr("URL missing host")
    ELSE IF SelectSeq(input.segs, NonEmptySeg) = << >> THEN DetectErr("URL path is empty")
    ELSE Detected(input, ForgeKindOf(input.host, input.segs),
                  NormalizeSegs(SelectSeq(input.segs, NonEmptySeg)))

-----------------------------------------------------------------------------
(* db.rs: the durable store                                                *)

Modes == {"auto", "addon", "addon_git", "dll", "mixed", "raw"}

\* model.rs Repo, as Engine::add_repo fills it (lines 119-140)
NewRepo(det, mode, asset_regex) ==
    [id |-> 0, url |-> det.canonical_url, forge |-> det.forge_str,
     host |-> det.host, owner |-> det.owner, name |-> det.name,
     mode |-> mode, enabled |-> TRUE,
     git_branch |-> IF mode = "addon_git" THEN Some("master") ELSE None,
     asset_regex |-> asset_regex,
     last_version |-> None, etag |-> None,
     installed_asset_id |-> None, installed_asset_name |-> None,
     installed_asset_size |-> None, installed_asset_url |-> None]

Identity(r) == <<r.host, r.owner, r.name>>

\* mutant: the unique index is on the url column
UniqueViolation_ByUrl(rows, repo) ==
    \E r \in rows : r.url = repo.url

\* CREATE UNIQUE INDEX idx_repos_unique ON repos(host, owner, name):
\* the INSERT of repo is refused iff a row with the same three columns exists
UniqueViolation(rows, repo) ==
    \E r \in rows : r.host = repo.host /\ r.owner = repo.owner /\ r.name = repo.name

\* Db::add_repo: the table after the call
Db_add_repo_rows(rows, nid, repo) ==
    IF UniqueViolation(rows, repo) THEN rows
    ELSE rows \cup {[repo EXCEPT !.id = nid]}

\* Db::add_repo: the id it returns (last_insert_rowid, or the SELECT of lines 177-190)
Db_add_repo_id(rows, nid, repo) ==
    IF UniqueViolation(rows, repo)
    THEN (CHOOSE r \in rows : r.host = repo.host /\ r.owner = repo.owner
                                /\ r.name = repo.name).id
    ELSE nid

\* UPDATE repos SET <field>=v WHERE id=?
Db_update(rows, id, field, v) ==
    {IF r.id = id THEN [r EXCEPT ![field] = v] ELSE r : r \in rows}

\* Db::remove_repo with PRAGMA foreign_keys=ON: installs cascade
Db_remove_repo_rows(rows, id) == {r \in rows : r.id # id}
\* mutant: the manifest entries of a deleted row stay
Db_remove_repo_installs_NoCascade(inst, id) == inst
Db_remove_repo_installs(inst, id) == {e \in inst : e.repo_id # id}

\* Db::clear_installs
Db_clear_installs(inst, id) == {e \in inst : e.repo_id # id}

\* Db::add_install: INSERT OR REPLACE on the key (repo_id, path)
Db_add_install(inst, id, path, kind) ==
    {e \in inst : ~(e.repo_id = id /\ e.path = path)}
        \cup {[repo_id |-> id, path |-> path, kind |-> kind]}

\* Db::list_installs, as a set
Db_list_installs(inst, id) == {e \in inst : e.repo_id = id}

\* Db::get_rate_limit
Db_get_rate_limit(rl, host) ==
    IF \E e \in rl : e.host = host
    THEN Some((CHOOSE e \in rl : e.host = host).reset_epoch)
    ELSE None

\* Db::set_rate_limit: upsert on host
Db_set_rate_limit(rl, host, epoch) ==
    {e \in rl : e.host # host} \cup {[host |-> host, reset_epoch |-> epoch]}

\* Db::clear_rate_limit
Db_clear_rate_limit(rl, host) == {e \in rl : e.host # host}

Row2(rows, id) == CHOOSE r \in rows : r.id = id
Row(id) == Row2(repos, id)
Tracked(id) == \E r \in repos : r.id = id

-----------------------------------------------------------------------------
(* lib.rs: the asset policy (is_asset_allowed, pick_asset).  A file name   *)
(* is the tuple of its tokens; "." and " " are tokens, the other tokens    *)
(* hold neither.                                                           *)

RECURSIVE TrimStart(_)
TrimStart(n) == IF n # << >> /\ n[1] = " " THEN TrimStart(Tail(n)) ELSE n

RECURSIVE TrimEnd(_)
TrimEnd(n) == IF n # << >> /\ LastOf(n) = " " THEN TrimEnd(Front(n)) ELSE n

\* str::trim
Trim(n) == TrimEnd(TrimStart(n))

\* the index of the last "." of n, 0 without one
LastDot(n) ==
    IF \E i \in 1..Len(n) : n[i] = "."
    THEN CHOOSE i \in 1..Len(n) : n[i] = "." /\ \A j \in (i + 1)..Len(n) : n[j] # "."
    ELSE 0

\* Path::extension: what follows the last "." of the file name; None when
\* there is no "." or when the only "." starts the name
PathExtension(n) ==
    IF n = <<".", ".">> \/ LastDot(n) <= 1 THEN None
    ELSE Some(SubSeq(n, LastDot(n) + 1, Len(n)))

\* lines 1030-1033: trim, drop the empty extension, lower-case
NormalExt(e) ==
    IF e = None THEN None
    ELSE IF Trim(Unwrap(e)) = << >> THEN None
    ELSE Some(Lower(Trim(Unwrap(e))[1]))

\* Engine::asset_extension: the extension trimmed and lower-cased, None if empty
asset_extension(n) == NormalExt(PathExtension(n))

is_blocked_extension(ext) ==
    ext \in {"exe", "msi", "msix", "appx", "bat", "cmd", "ps1", "vbs", "js", "jse",
             "wsf", "wsh", "scr", "com", "sh", "run", "apk", "jar", "py", "pl", "rb",
             "dmg", "pkg"}

\* the match arm of lines 1077-1083
ModeAccepts(mode, ext) ==
    CASE mode \in {"addon", "mixed"} -> ext = "zip"
      [] mode = "addon_git" -> FALSE
      [] mode \in {"dll", "auto"} -> ext = "dll" \/ ext = "zip"
      [] mode = "raw" -> TRUE

\* lines 1070-1083: the decision on the extension
ExtAllowed(ext, mode) ==
    IF ext = None THEN mode = "raw"
    ELSE IF is_blocked_extension(Unwrap(ext)) THEN FALSE
    ELSE ModeAccepts(mode, Unwrap(ext))

\* lines 1065-1069: the decision on the trimmed name
TrimmedAllowed(name, mode) ==
    IF name = << >> THEN FALSE ELSE ExtAllowed(asset_extension(name), mode)

\* Engine::is_asset_allowed
is_asset_allowed(asset, mode) == TrimmedAllowed(Trim(asset.name), mode)

\* name.to_lowercase().ends_with(suffix), suffix being "." and a word
EndsWithExt(n, word) ==
    Len(n) >= 2 /\ n[Len(n) - 1] = "." /\ Lower(LastOf(n)) = word

\* name.to_ascii_lowercase().starts_with("vanillafixes")
StartsWithVanillafixes(n) == n # << >> /\ Lower(n[1]) = "vanillafixes"

\* lower.contains("-dxvk")
ContainsDxvk(n) == \E i \in 1..Len(n) : Lower(n[i]) = "-dxvk"

\* the asset-name regex overrides of the model: whether Regex::new accepts
\* the pattern, and whether it matches a name
RegexCompiles(rx) == rx # "("
RegexIsMatch(rx, n) ==
    CASE rx = "exe$" -> Len(n) >= 1 /\ Lower(LastOf(n)) = "exe"
      [] rx = "dll$" -> Len(n) >= 1 /\ Lower(LastOf(n)) = "dll"
      [] rx = "dxvk" -> ContainsDxvk(n)
      [] rx = "." -> n # << >>
      [] OTHER -> FALSE

\* assets.iter().find(pred): the first index whose asset satisfies pred, 0 if none
FirstIndex(assets, Pred(_)) ==
    IF \E i \in 1..Len(assets) : Pred(assets[i])
    THEN CHOOSE i \in 1..Len(assets) : Pred(assets[i]) /\ \A j \in 1..(i - 1) : ~Pred(assets[j])
    ELSE 0

PickOk(a) == [ok |-> TRUE, asset |-> a]
PickErr(msg) == [ok |-> FALSE, err |-> msg]

\* mutant: the override's match is taken whether allowed or not
ByRegex_AllowedUnchecked(assets, mode, asset_regex) ==
    IF asset_regex = None THEN 0
    ELSE FirstIndex(assets, LAMBDA a : RegexIsMatch(Unwrap(asset_regex), a.name))

\* lines 971-979: the first allowed asset the override matches, 0 if none
ByRegex(assets, mode, asset_regex) ==
    IF asset_regex = None THEN 0
    ELSE FirstIndex(assets, LAMBDA a : /\ RegexIsMatch(Unwrap(asset_regex), a.name)
                                       /\ is_asset_allowed(a, mode))

\* matches!(mode, Addon | Mixed | Auto)
prefer_zip(mode) == mode \in {"addon", "mixed", "auto"}

\* lines 986-1003: with a VanillaFixes asset present, the first allowed zip without "-dxvk"
ByVanillaFixes(assets, mode) ==
    IF prefer_zip(mode) /\ \E i \in 1..Len(assets) : StartsWithVanillafixes(assets[i].name)
    THEN FirstIndex(assets, LAMBDA a : /\ EndsWithExt(a.name, "zip")
                                       /\ ~ContainsDxvk(a.name)
                                       /\ is_asset_allowed(a, mode))
    ELSE 0

\* lines 1005-1011
ByZip(assets, mode) ==
    IF prefer_zip(mode)
    THEN FirstIndex(assets, LAMBDA a : EndsWithExt(a.name, "zip") /\ is_asset_allowed(a, mode))
    ELSE 0

\* lines 1014-1021
ByDll(assets, mode) ==
    IF mode = "dll"
    THEN FirstIndex(assets, LAMBDA a : EndsWithExt(a.name, "dll") /\ is_asset_allowed(a, mode))
    ELSE 0

\* lines 1023-1025
ByAny(assets, mode) == FirstIndex(assets, LAMBDA a : is_asset_allowed(a, mode))

\* if let Some(a) = find(..) { return Ok(a.clone()) }, else what follows
OrElse(assets, i, otherwise) == IF i # 0 THEN PickOk(assets[i]) ELSE otherwise

\* Engine::pick_asset(rel, mode, asset_regex)
pick_asset(rel, mode, asset_regex) ==
    IF rel.assets = << >> THEN PickErr("No assets found in latest release")
    ELSE IF asset_regex # None /\ ~RegexCompiles(Unwrap(asset_regex))
    THEN PickErr("regex parse error")
    ELSE OrElse(rel.assets, ByRegex(rel.assets, mode, asset_regex),
         OrElse(rel.assets, ByVanillaFixes(rel.assets, mode),
         OrElse(rel.assets, ByZip(rel.assets, mode),
         OrElse(rel.assets, ByDll(rel.assets, mode),
         OrElse(rel.assets, ByAny(rel.assets, mode),
                PickErr("No safe/compatible release asset found"))))))

-----------------------------------------------------------------------------
(* lib.rs: plans.  A label (tag, version) is a string; an error message is *)
(* the record of its format and of the numbers a "reset (\d+)" search can  *)
(* find in it: reset is the x-ratelimit-reset header as printed (None for  *)
(* "?"), body a number following "reset " in the response body.            *)

Msg(fmt, reset, body) == [fmt |-> fmt, reset |-> reset, body |-> body]
PlainMsg(fmt) == Msg(fmt, None, None)

\* Engine::is_generic_release_label
is_generic_release_label(label) ==
    Lower(label) \in {"", "release", "latest", "stable", "current", "download"}

\* Engine::version_from_asset_name: the first semver-like fragment of the
\* name, "_" replaced by "."
VersionFragment(tok) ==
    CASE tok = "1_5" -> Some("1.5")
      [] tok = "v2_0" -> Some("v2.0")
      [] OTHER -> None

version_from_asset_name(n) ==
    LET hits == SelectSeq(n, LAMBDA t : VersionFragment(t) # None)
    IN IF hits = << >> THEN None ELSE VersionFragment(hits[1])

\* Engine::effective_latest_label
effective_latest_label(tag, asset_name) ==
    IF ~is_generic_release_label(tag) THEN tag
    ELSE IF version_from_asset_name(asset_name) # None
    THEN Unwrap(version_from_asset_name(asset_name))
    ELSE tag

\* Engine::normalized_current_version
normalized_current_version(r) ==
    IF r.last_version = None THEN None
    ELSE IF ~is_generic_release_label(Unwrap(r.last_version)) THEN r.last_version
    ELSE IF r.installed_asset_name # None
            /\ version_from_asset_name(Unwrap(r.installed_asset_name)) # None
    THEN version_from_asset_name(Unwrap(r.installed_asset_name))
    ELSE r.last_version

\* an asset identity: the forge-native id, or the hash of the download URL
AssetId(id, hashed) == [id |-> id, hash |-> hashed]
NoAssetId == AssetId("", EmptyUrl)

\* Engine::effective_asset_id (util::sha256_hex kept as its argument)
effective_asset_id(asset) ==
    IF asset.id # None THEN AssetId(Unwrap(asset.id), EmptyUrl)
    ELSE AssetId("", asset.download_url)

\* Engine::blank_plan
blank_plan(r) ==
    [repo_id |-> r.id, forge |-> r.forge, host |-> r.host, owner |-> r.owner,
     name |-> r.name, url |-> r.url, mode |-> r.mode,
     current |-> normalized_current_version(r),
     latest |-> IF normalized_current_version(r) = None THEN "unknown"
                ELSE Unwrap(normalized_current_version(r)),
     asset_id |-> NoAssetId, asset_name |-> << >>, asset_url |-> EmptyUrl,
     asset_size |-> None, asset_sha256 |-> None,
     repair_needed |-> FALSE, not_modified |-> FALSE, applied |-> FALSE,
     error |-> None]

\* Engine::rate_limited_plan
rate_limited_plan(r, reset_epoch) ==
    [blank_plan(r) EXCEPT !.error = Some(Msg("rate_limited_until", Some(reset_epoch), None))]

ErrorPlan(r, msg) == [blank_plan(r) EXCEPT !.error = Some(msg)]

\* Engine::parse_github_reset_epoch: the first match of "reset (\d+)" in
\* the message.  github.rs formats a 403/429 as "... (HTTP s, remaining r,
\* reset <header>). <body> Add a GitHub token ..." and any other failure
\* status as "GitHub API error HTTP s: <body>"
parse_github_reset_epoch(msg) ==
    CASE msg.fmt = "rate" -> IF msg.reset # None THEN msg.reset ELSE msg.body
      [] msg.fmt = "http" -> msg.body
      [] OTHER -> None

\* Engine::size_u64_to_i64: i64::try_from keeps a size below 2^63 and gives
\* None from there on; the sizes of the model are all below
size_u64_to_i64(v) == v

\* mutant: the asset is compared by its id alone
installed_matches_IdOnly(r, latest_tag, latest_asset_id, latest_asset_name, latest_asset_size) ==
    IF r.installed_asset_id # None
    THEN Unwrap(r.installed_asset_id) = latest_asset_id
    ELSE normalized_current_version(r) = Some(latest_tag)

\* Engine::installed_matches
installed_matches(r, latest_tag, latest_asset_id, latest_asset_name, latest_asset_size) ==
    IF r.installed_asset_id # None
    THEN /\ Unwrap(r.installed_asset_id) = latest_asset_id
         /\ r.installed_asset_name = Some(latest_asset_name)
         /\ r.installed_asset_size = latest_asset_size
    ELSE normalized_current_version(r) = Some(latest_tag)

\* mutant: the manifest is not compared with the disk
has_missing_targets_Never(inst, dsk, repo_id, wow) == FALSE

\* Engine::has_missing_targets: some manifest path of the project is not on disk
has_missing_targets(inst, dsk, repo_id, wow) ==
    /\ wow
    /\ \E e \in Db_list_installs(inst, repo_id) : e.path \notin DOMAIN dsk

-----------------------------------------------------------------------------
(* forge/mod.rs, forge/github.rs: the forge client                         *)

RELEASE_CACHE_TTL == 45

\* what latest_release returns: Ok((new_etag, release_or_none, not_modified)) or Err(msg)
FetchOk(new_etag, rel, not_modified) ==
    [ok |-> TRUE, new_etag |-> new_etag, rel |-> rel, not_modified |-> not_modified,
     err |-> PlainMsg("")]
FetchErr(msg) ==
    [ok |-> FALSE, new_etag |-> None, rel |-> None, not_modified |-> FALSE, err |-> msg]

\* forge::cache_key
cache_key(det) == <<det.forge_str, det.host, LowerSeq(det.project_path)>>

Drop(f, k) == [x \in DOMAIN f \ {k} |-> f[x]]
Put(f, k, v) == (k :> v) @@ Drop(f, k)

\* mutant: the caller's tag is compared without asking whether there is one
cache_read_TagUnchecked(cache, det, etag, tnow) ==
    LET key == cache_key(det) IN
    IF key \notin DOMAIN cache
    THEN [hit |-> FALSE, cache |-> cache, res |-> FetchErr(PlainMsg(""))]
    ELSE IF tnow - cache[key].fetched_at > RELEASE_CACHE_TTL
    THEN [hit |-> FALSE, cache |-> Drop(cache, key), res |-> FetchErr(PlainMsg(""))]
    ELSE IF cache[key].etag = etag
    THEN [hit |-> TRUE, cache |-> cache, res |-> FetchOk(cache[key].etag, None, TRUE)]
    ELSE [hit |-> TRUE, cache |-> cache,
          res |-> FetchOk(cache[key].etag, Some(cache[key].release), FALSE)]

\* forge::cache_read: hit tells whether it returned Some, cache is the map afterwards
cache_read(cache, det, etag, tnow) ==
    LET key == cache_key(det) IN
    IF key \notin DOMAIN cache
    THEN [hit |-> FALSE, cache |-> cache, res |-> FetchErr(PlainMsg(""))]
    ELSE IF tnow - cache[key].fetched_at > RELEASE_CACHE_TTL
    THEN [hit |-> FALSE, cache |-> Drop(cache, key), res |-> FetchErr(PlainMsg(""))]
    ELSE IF etag # None /\ cache[key].etag = etag
    THEN [hit |-> TRUE, cache |-> cache, res |-> FetchOk(cache[key].etag, None, TRUE)]
    ELSE [hit |-> TRUE, cache |-> cache,
          res |-> FetchOk(cache[key].etag, Some(cache[key].release), FALSE)]

\* forge::cache_write
cache_write(cache, det, etag, release, tnow) ==
    Put(cache, cache_key(det), [fetched_at |-> tnow, etag |-> etag, release |-> release])

\* the project a request for det reaches: forges compare paths without case
ForgeKey(det) == <<det.host, LowerSeq(det.project_path)>>

\* github.rs / gitlab.rs / gitea.rs latest_release, given what the server
\* does: fault is "none" when it serves its content, else the failure
ServerResult(frg, det, etag, fault) ==
    IF fault # PlainMsg("none") THEN FetchErr(fault)
    ELSE IF ForgeKey(det) \notin DOMAIN frg \/ frg[ForgeKey(det)] = None
    THEN FetchErr(PlainMsg("not_found"))
    ELSE LET rel == Unwrap(frg[ForgeKey(det)]) IN
         IF etag # None /\ etag = rel.etag
         THEN FetchOk(etag, None, TRUE)
         ELSE FetchOk(rel.etag, Some([tag |-> rel.tag, assets |-> rel.assets]), FALSE)

\* forge::latest_release after the forge's answer: lines 253-257
AfterServer(cache, det, res, tnow) ==
    IF res.ok /\ res.rel # None
    THEN cache_write(cache, det, res.new_etag, Unwrap(res.rel), tnow)
    ELSE cache

-----------------------------------------------------------------------------
(* lib.rs: build_update_plan_for_repo for a release-mode project.  A build *)
(* is the record t: r the row it was called with, etag / attempted_uncached*)
(* / missing its locals, calls the forge requests it has sent, pc where it *)
(* stands, sent and got the tags its calls of latest_release carried and   *)
(* what they returned.  A state st carries the tables and the cache the    *)
(* build touches.                                                          *)

BuildState(rows, rl, cache, t) == [repos |-> rows, rate_limits |-> rl, relcache |-> cache, t |-> t]

Finish(st, plan) == [st EXCEPT !.t.pc = "done", !.t.plan = plan]

\* mutant: every first "not modified" is asked for again
needs_uncached_refresh_AnyProject(t) == ~t.attempted_uncached

\* lines 769-773
needs_uncached_refresh(t) ==
    /\ ~t.attempted_uncached
    /\ \/ ~(t.r.installed_asset_id # None \/ t.r.last_version # None)
       \/ /\ t.missing
          /\ (t.r.installed_asset_url = None \/ Unwrap(t.r.installed_asset_url) = EmptyUrl)

\* mutant: the not-modified plan carries the recorded URL whenever there is one
NotModifiedOutcome_UrlRecorded(st) ==
    LET t == st.t
        r == t.r
        url_empty == r.installed_asset_url = None \/ Unwrap(r.installed_asset_url) = EmptyUrl
        can_repair == /\ t.missing
                      /\ r.installed_asset_url # None
                      /\ r.installed_asset_name # None
                      /\ ~url_empty
    IN IF needs_uncached_refresh(t)
       THEN [st EXCEPT !.t.etag = None, !.t.attempted_uncached = TRUE, !.t.pc = "loop"]
       ELSE Finish(st,
              [blank_plan(r) EXCEPT
                 !.not_modified = TRUE,
                 !.repair_needed = can_repair,
                 !.asset_id = IF r.installed_asset_id = None THEN NoAssetId
                              ELSE Unwrap(r.installed_asset_id),
                 !.asset_name = IF r.installed_asset_name = None THEN << >>
                                ELSE Unwrap(r.installed_asset_name),
                 !.asset_size = r.installed_asset_size,
                 !.asset_url = IF ~url_empty THEN Unwrap(r.installed_asset_url) ELSE EmptyUrl])

\* lines 768-797: the forge said "not modified"
NotModifiedOutcome(st) ==
    LET t == st.t
        r == t.r
        url_empty == r.installed_asset_url = None \/ Unwrap(r.installed_asset_url) = EmptyUrl
        can_repair == /\ t.missing
                      /\ r.installed_asset_url # None
                      /\ r.installed_asset_name # None
                      /\ ~url_empty
    IN IF needs_uncached_refresh(t)
       THEN [st EXCEPT !.t.etag = None, !.t.attempted_uncached = TRUE, !.t.pc = "loop"]
       ELSE Finish(st,
              [blank_plan(r) EXCEPT
                 !.not_modified = TRUE,
                 !.repair_needed = can_repair,
                 !.asset_id = IF r.installed_asset_id = None THEN NoAssetId
                              ELSE Unwrap(r.installed_asset_id),
                 !.asset_name = IF r.installed_asset_name = None THEN << >>
                                ELSE Unwrap(r.installed_asset_name),
                 !.asset_size = r.installed_asset_size,
                 !.asset_url = IF can_repair THEN Unwrap(r.installed_asset_url) ELSE EmptyUrl])

\* lines 831-851: the plan for the chosen asset
AssetPlan(t, asset, latest_tag, asset_id, matches) ==
    [blank_plan(t.r) EXCEPT
       !.latest = latest_tag,
       !.asset_id = asset_id,
       !.asset_name = asset.name,
       !.asset_url = IF ~matches \/ t.missing THEN asset.download_url ELSE EmptyUrl,
       !.asset_size = asset.size,
       !.asset_sha256 = asset.sha256,
       !.repair_needed = t.missing /\ matches]

\* lines 819-829: latest_tag, asset_id and matches
PickedPlan(t, asset, latest_tag, asset_id) ==
    AssetPlan(t, asset, latest_tag, asset_id,
              installed_matches(t.r, latest_tag, asset_id, asset.name,
                                size_u64_to_i64(asset.size)))

\* lines 812-818: pick_asset's error becomes the plan's
PlanOfPick(t, rel, picked) ==
    IF ~picked.ok THEN ErrorPlan(t.r, PlainMsg(picked.err))
    ELSE PickedPlan(t, picked.asset,
                    effective_latest_label(rel.tag, picked.asset.name),
                    effective_asset_id(picked.asset))

\* lines 810-851: a release was fetched
ReleasePlan(t, rel) == PlanOfPick(t, rel, pick_asset(rel, t.r.mode, t.r.asset_regex))

\* lines 747-758: latest_release failed with msg
HandleErr(st, det, msg) ==
    IF det.kind = "GitHub" /\ parse_github_reset_epoch(msg) # None
    THEN Finish([st EXCEPT !.rate_limits =
                     Db_set_rate_limit(@, st.t.r.host, Unwrap(parse_github_reset_epoch(msg)))],
                rate_limited_plan(st.t.r, Unwrap(parse_github_reset_epoch(msg))))
    ELSE Finish(st, ErrorPlan(st.t.r, msg))

\* lines 760-766: the new etag is stored, a cooldown of the host cleared
AfterOk(st, det, res) ==
    [st EXCEPT !.repos = IF res.new_etag # None
                         THEN Db_update(@, st.t.r.id, "etag", res.new_etag) ELSE @,
               !.rate_limits = IF det.kind = "GitHub"
                               THEN Db_clear_rate_limit(@, st.t.r.host) ELSE @]

\* lines 768-808: not modified, no release, or a release
Outcome(st1, res) ==
    IF res.not_modified THEN NotModifiedOutcome(st1)
    ELSE IF res.rel = None
    THEN Finish(st1, [blank_plan(st1.t.r) EXCEPT !.latest = "none"])
    ELSE Finish(st1, ReleasePlan(st1.t, Unwrap(res.rel)))

\* what a call of latest_release came back with
OutcomeKind(res) ==
    IF ~res.ok THEN "error"
    ELSE IF res.not_modified THEN "not_modified"
    ELSE IF res.rel = None THEN "none" ELSE "release"

\* lines 744-808: one turn of the loop on the result res of latest_release;
\* got lists what the calls of this build came back with
Handle(st, det, res) ==
    IF ~res.ok THEN HandleErr([st EXCEPT !.t.got = Append(@, OutcomeKind(res))], det, res.err)
    ELSE Outcome(AfterOk([st EXCEPT !.t.got = Append(@, OutcomeKind(res))], det, res), res)

RECURSIVE Drive(_, _, _)
\* the loop goes round again, or the build has its plan
Continue(st1, det, tnow) ==
    IF st1.t.pc = "loop" THEN Drive(st1, det, tnow) ELSE st1

\* forge::latest_release on what cache_read returned: a miss sends a request
\* and suspends, a hit is handled at once
OnCache(st, det, tnow, cr) ==
    IF ~cr.hit THEN [st EXCEPT !.relcache = cr.cache, !.t.pc = "fetch", !.t.calls = @ + 1]
    ELSE Continue(Handle([st EXCEPT !.relcache = cr.cache], det, cr.res), det, tnow)

\* the loop up to its next suspension: each turn asks latest_release, which
\* answers from the cache without suspending or sends a request and waits
\* sent lists the tags the calls of this build carried
Drive(st, det, tnow) ==
    OnCache([st EXCEPT !.t.sent = Append(@, st.t.etag)], det, tnow,
            cache_read(st.relcache, det, st.t.etag, tnow))

\* mutant: the gate compares the cooldown with the clock the wrong way round
CooldownActive_Inverted(rl, host, tok, tnow) ==
    ~tok /\ Db_get_rate_limit(rl, host) # None /\ tnow >= Unwrap(Db_get_rate_limit(rl, host))

\* lines 726-730: the check short-circuits
CooldownActive(rl, host, tok, tnow) ==
    ~tok /\ Db_get_rate_limit(rl, host) # None /\ tnow < Unwrap(Db_get_rate_limit(rl, host))

\* lines 725-734: the table after the gate
GateTable(rl, det, host, tok, tnow) ==
    IF det.kind # "GitHub" THEN rl
    ELSE IF tok THEN Db_clear_rate_limit(rl, host)
    ELSE IF Db_get_rate_limit(rl, host) # None /\ ~CooldownActive(rl, host, tok, tnow)
    THEN Db_clear_rate_limit(rl, host)
    ELSE rl

\* no apply call has been made: the fields of an apply call, see below
NoApply ==
    [pc |-> "idle", op |-> "", replace |-> FALSE, queue |-> << >>, t |-> << >>,
     plan |-> << >>, recs |-> << >>, todo |-> << >>, synced |-> << >>, known |-> FALSE,
     plans |-> << >>, lastok |-> FALSE, err |-> "", cause |-> "",
     disk0 |-> << >>, inst0 |-> {}, row0 |-> << >>, sound |-> FALSE,
     raw_dest |-> None]

NewBuild(r) ==
    [r |-> r, pc |-> "wait", etag |-> None, attempted_uncached |-> FALSE,
     missing |-> FALSE, calls |-> 0, plan |-> blank_plan(r), cause |-> "", gated |-> FALSE,
     local |-> None, res |-> PlainMsg(""), sent |-> << >>, got |-> << >>]

Fail(st, cause) == [st EXCEPT !.t.pc = "err", !.t.cause = cause]

\* lines 722-742, det being detect_repo(&r.url)
StartDetected(st, inst, dsk, wow, use_cached_etag, tok, tnow, dbfail, det) ==
    IF ~det.ok THEN Fail(st, "detect")
    ELSE IF det.kind = "GitHub" /\ ~tok /\ dbfail = "get_rate_limit" THEN Fail(st, "store")
    ELSE IF det.kind = "GitHub" /\ CooldownActive(st.rate_limits, st.t.r.host, tok, tnow)
    THEN [Finish(st, rate_limited_plan(st.t.r,
                       Unwrap(Db_get_rate_limit(st.rate_limits, st.t.r.host))))
            EXCEPT !.t.gated = TRUE]
    ELSE Drive([st EXCEPT
                  !.rate_limits = GateTable(@, det, st.t.r.host, tok, tnow),
                  !.t.missing = has_missing_targets(inst, dsk, st.t.r.id, wow),
                  !.t.etag = IF use_cached_etag THEN st.t.r.etag ELSE None,
                  !.t.attempted_uncached = ~use_cached_etag],
               det, tnow)

\* build_update_plan_for_repo(r, use_cached_etag, wow_dir) from its call to
\* its first suspension, for a row that is enabled and not git-synced;
\* dbfail names the store read that fails, "" when none does
StartRelease(st, inst, dsk, wow, use_cached_etag, tok, tnow, dbfail) ==
    IF wow /\ dbfail = "list_installs" THEN Fail(st, "store")
    ELSE StartDetected(st, inst, dsk, wow, use_cached_etag, tok, tnow, dbfail,
                       detect_repo(st.t.r.url))

\* forge::latest_release lines 251-257 on the forge's answer res, then the loop
OnAnswer(st, det, res, tnow) ==
    Continue(Handle([st EXCEPT !.relcache = AfterServer(@, det, res, tnow),
                               !.t.res = res.err],
                    det, res),
             det, tnow)

\* the request of the build reaches the forge of det
Answered(st, frg, tnow, fault, det) ==
    OnAnswer(st, det, ServerResult(frg, det, st.t.etag, fault), tnow)

\* the build resumes with the forge's answer
ResumeRelease(st, frg, tnow, fault) ==
    Answered(st, frg, tnow, fault, detect_repo(st.t.r.url))

-----------------------------------------------------------------------------
(* lib.rs: build_git_addon_plan_for_repo_async.  What is on disk at a path *)
(* is the record of its kind ("addon", "dll", "raw" or "git"), of the      *)
(* asset or commit it came from and, for a git work tree, of its branch.   *)

Content(kind, aid, branch) == [kind |-> kind, aid |-> aid, branch |-> branch]

\* git_sync::short_oid
short_oid(oid) ==
    CASE oid = "c1" -> "c1~"
      [] oid = "c2" -> "c2~"
      [] OTHER -> oid

GitHead(oid, branch) == [oid |-> oid, short_oid |-> short_oid(oid), branch |-> branch]

\* git_sync::addon_repo_staging_dir
addon_repo_staging_dir(r) ==
    <<"Interface", "AddOns", ".wuddle", "addon_git", r.host, r.owner, r.name>>

\* Engine::addon_git_worktree_dir: a manifest path that is a git work tree, else the staging dir
addon_git_worktree_dir(inst, dsk, r) ==
    LET own == {e.path : e \in {x \in Db_list_installs(inst, r.id) :
                                   x.path \in DOMAIN dsk /\ dsk[x.path].kind = "git"}}
    IN IF own # {} THEN CHOOSE q \in own : TRUE ELSE addon_repo_staging_dir(r)

\* git_sync::local_head: None without the directory, an error when it is no work tree
local_head(dsk, path) ==
    IF path \notin DOMAIN dsk THEN [ok |-> TRUE, head |-> None]
    ELSE IF dsk[path].kind # "git" THEN [ok |-> FALSE, head |-> None]
    ELSE [ok |-> TRUE, head |-> Some(GitHead(dsk[path].aid.id, dsk[path].branch))]

\* lines 562-565, 571-574
GitCurrent(t) ==
    IF t.local # None THEN Some(Unwrap(t.local).short_oid)
    ELSE normalized_current_version(t.r)

\* lines 614-646: up to the spawn_blocking of remote_head_for_branch
StartGit(st, inst, dsk, wow) ==
    LET r == st.t.r
        lh == local_head(dsk, addon_git_worktree_dir(inst, dsk, r))
    IN IF ~wow THEN Finish(st, ErrorPlan(r, PlainMsg("WoW path is required")))
       ELSE IF ~lh.ok THEN Finish(st, ErrorPlan(r, PlainMsg("not a git repository")))
       ELSE [st EXCEPT !.t.pc = "git", !.t.local = lh.head]

\* mutant: the git plan always asks for a sync
ResumeGit_AlwaysSync(st, inst, dsk, remote, dbfail) ==
    LET t == st.t
        r == t.r
    IN IF remote = None
       THEN Finish(st, [ErrorPlan(r, PlainMsg("Git sync check failed")) EXCEPT
                          !.current = GitCurrent(t)])
       ELSE IF dbfail = "list_installs" THEN Fail(st, "store")
       ELSE LET head == Unwrap(remote)
                missing == has_missing_targets(inst, dsk, r.id, TRUE)
                matches == t.local # None /\ Unwrap(t.local).oid = head.oid
            IN Finish(st, [blank_plan(r) EXCEPT
                             !.current = GitCurrent(t),
                             !.latest = head.short_oid,
                             !.asset_id = AssetId(head.oid, EmptyUrl),
                             !.asset_name = <<"git:", head.branch>>,
                             !.asset_url = r.url,
                             !.repair_needed = missing /\ GitCurrent(t) # None])

\* lines 647-704: remote is what remote_head_for_branch answered, None for a failure
ResumeGit(st, inst, dsk, remote, dbfail) ==
    LET t == st.t
        r == t.r
    IN IF remote = None
       THEN Finish(st, [ErrorPlan(r, PlainMsg("Git sync check failed")) EXCEPT
                          !.current = GitCurrent(t)])
       ELSE IF dbfail = "list_installs" THEN Fail(st, "store")
       ELSE LET head == Unwrap(remote)
                missing == has_missing_targets(inst, dsk, r.id, TRUE)
                matches == t.local # None /\ Unwrap(t.local).oid = head.oid
            IN Finish(st, [blank_plan(r) EXCEPT
                             !.current = GitCurrent(t),
                             !.latest = head.short_oid,
                             !.asset_id = AssetId(head.oid, EmptyUrl),
                             !.asset_name = <<"git:", head.branch>>,
                             !.asset_url = IF ~matches \/ missing THEN r.url ELSE EmptyUrl,
                             !.repair_needed = missing /\ GitCurrent(t) # None])

-----------------------------------------------------------------------------
(* lib.rs: operations on the store                                         *)

MaxRepos == 2

AddonsPath(name) == <<"Interface", "AddOns", name>>

\* what the last add_repo returned; tick tells two equal returns apart
InitLast == [tick |-> 0, op |-> "init"]

\* lines 117-142 of add_repo, det being detect_repo(url)
AddDetected(det, mode, asset_regex) ==
    /\ IF det.ok /\ ~UniqueViolation(repos, NewRepo(det, mode, asset_regex))
       THEN nextId <= MaxRepos ELSE TRUE
    /\ IF ~det.ok
       THEN /\ last' = [tick |-> 1 - last.tick, op |-> "add_repo", ok |-> FALSE]
            /\ UNCHANGED <<repos, nextId>>
       ELSE LET repo == NewRepo(det, mode, asset_regex) IN
            /\ repos' = Db_add_repo_rows(repos, nextId, repo)
            /\ nextId' = IF UniqueViolation(repos, repo) THEN nextId ELSE nextId + 1
            /\ last' = [tick |-> 1 - last.tick, op |-> "add_repo", ok |-> TRUE,
                        key |-> Identity(repo),
                        id |-> Db_add_repo_id(repos, nextId, repo)]
    /\ UNCHANGED <<installs, rate_limits, clones, worldVars, runVars, pureVars>>

\* Engine::add_repo(url, mode, asset_regex)
AddRepo(url, mode, asset_regex) == AddDetected(detect_repo(url), mode, asset_regex)

\* Engine::set_repo_enabled (the dlls.txt part touches no store state)
SetRepoEnabled(id, enabled) ==
    /\ Tracked(id)
    /\ repos' = Db_update(repos, id, "enabled", enabled)
    /\ UNCHANGED <<nextId, installs, rate_limits, clones, last, worldVars, runVars, pureVars>>

\* Engine::set_repo_git_branch
SetRepoGitBranch(id, branch) ==
    /\ Tracked(id)
    /\ Row(id).mode = "addon_git"
    /\ repos' = Db_update(repos, id, "git_branch", Some(branch))
    /\ UNCHANGED <<nextId, installs, rate_limits, clones, last, worldVars, runVars, pureVars>>

\* Db::update_etag
UpdateEtag(id, etag) ==
    /\ Tracked(id)
    /\ repos' = Db_update(repos, id, "etag", Some(etag))
    /\ UNCHANGED <<nextId, installs, rate_limits, clones, last, worldVars, runVars, pureVars>>

\* Db::set_installed_asset_state: five columns in one UPDATE
Db_set_installed_asset_state(rows, id, version, aid, aname, asize, aurl) ==
    {IF r.id = id
     THEN [r EXCEPT !.last_version = version, !.installed_asset_id = aid,
                    !.installed_asset_name = aname, !.installed_asset_size = asize,
                    !.installed_asset_url = aurl]
     ELSE r : r \in rows}

SetInstalledAssetState(id, version, aid) ==
    /\ Tracked(id)
    /\ repos' = Db_set_installed_asset_state(repos, id, Some(version),
                                             Some(AssetId(aid, EmptyUrl)),
                                             Some(<<"a", ".", "zip">>), Some(1), None)
    /\ UNCHANGED <<nextId, installs, rate_limits, clones, last, worldVars, runVars, pureVars>>

\* Db::add_install of a tracked project (the foreign key refuses any other id)
AddInstall(id, path, kind) ==
    /\ Tracked(id)
    /\ installs' = Db_add_install(installs, id, path, kind)
    /\ UNCHANGED <<repos, nextId, rate_limits, clones, last, worldVars, runVars, pureVars>>

\* Db::set_rate_limit for the host of a forge that answered "rate limited"
SetRateLimit(host, epoch) ==
    /\ rate_limits' = Db_set_rate_limit(rate_limits, host, epoch)
    /\ UNCHANGED <<repos, nextId, installs, clones, last, worldVars, runVars, pureVars>>

\* lines 1544-1561: the targets remove_repo may delete; a relative manifest
\* path resolves under the WoW directory only
RemovableTargets(id, wow, remove_local_files) ==
    IF wow /\ remove_local_files THEN {e.path : e \in Db_list_installs(installs, id)} ELSE {}

\* the files and the clone folders left once the targets of S are deleted (the
\* lines of dlls.txt are not part of the model's file content)
TargetsRemoved(S) ==
    /\ disk' = [p \in DOMAIN disk \ S |-> disk[p]]
    /\ clones' = {c \in clones : AddonsPath(c.folder) \notin S}

\* Engine::remove_repo: the local files when asked for, then the DELETE whose
\* cascade takes the manifest entries; an error of list_installs, of a
\* remove_any_target (after some of the targets are gone) or of the DELETE
\* ends the call with the rows as they were
RemoveRepo(id, wow, remove_local_files, fault) ==
    /\ IF fault = "list_installs" /\ remove_local_files
       THEN /\ UNCHANGED <<repos, installs, disk, clones>>
            /\ last' = [tick |-> 1 - last.tick, op |-> "remove_repo", ok |-> FALSE, id |-> id]
       ELSE IF fault = "remove_any_target" /\ RemovableTargets(id, wow, remove_local_files) # {}
       THEN /\ \E S \in SUBSET RemovableTargets(id, wow, remove_local_files) :
                  /\ S # RemovableTargets(id, wow, remove_local_files)
                  /\ TargetsRemoved(S)
            /\ UNCHANGED <<repos, installs>>
            /\ last' = [tick |-> 1 - last.tick, op |-> "remove_repo", ok |-> FALSE, id |-> id]
       ELSE IF fault = "remove_repo"
       THEN /\ TargetsRemoved(RemovableTargets(id, wow, remove_local_files))
            /\ UNCHANGED <<repos, installs>>
            /\ last' = [tick |-> 1 - last.tick, op |-> "remove_repo", ok |-> FALSE, id |-> id]
       ELSE /\ TargetsRemoved(RemovableTargets(id, wow, remove_local_files))
            /\ repos' = Db_remove_repo_rows(repos, id)
            /\ installs' = Db_remove_repo_installs(installs, id)
            /\ last' = [tick |-> 1 - last.tick, op |-> "remove_repo", ok |-> TRUE, id |-> id,
                        removed_paths |->
                            Cardinality({p \in RemovableTargets(id, wow, remove_local_files) :
                                            \/ p \in DOMAIN disk
                                            \/ \E c \in clones : AddonsPath(c.folder) = p})]
    /\ UNCHANGED <<nextId, rate_limits, token, now, forge, dlcache, runVars, pureVars>>

-----------------------------------------------------------------------------
(* lib.rs: import_existing_addon_git_repos                                 *)

\* a folder of Interface/AddOns holding a git clone: its origin URL (after
\* normalize_git_remote_url), checked-out branch, HEAD commit and the addon
\* names detect_addons_in_tree finds in it
CloneCatalog ==
    {[folder |-> "A", remote |-> MkUrl("https", GithubCom, <<"O", "n.git">>),
      branch |-> "main", oid |-> "c1", addons |-> {"A"}],
     [folder |-> "B", remote |-> MkUrl("https", GithubCom, <<"o", "n">>),
      branch |-> "master", oid |-> "c2", addons |-> {"B", "B2"}]}

\* Engine::repo_key: lower-cased host|owner|name
repo_key(host, owner, name) == <<host, LowerSeq(owner), Lower(name)>>

RECURSIVE AddInstalls(_, _, _, _)
\* add_install for every path of a set
AddInstalls(inst, id, paths, kind) ==
    IF paths = {} THEN inst
    ELSE LET p == CHOOSE x \in paths : TRUE
         IN AddInstalls(Db_add_install(inst, id, p, kind), id, paths \ {p}, kind)

\* lines 489-506: the row add_repo is given for the clone c
ImportedRepo(c, det) ==
    [NewRepo(det, "addon_git", None) EXCEPT
        !.git_branch = Some(c.branch),
        !.last_version = Some(c.oid),
        !.installed_asset_id = Some(AssetId(c.oid, EmptyUrl)),
        !.installed_asset_name = Some(<<"git:", c.branch>>),
        !.installed_asset_url = Some(det.canonical_url)]

\* lines 507-527: add_repo returned id; the manifest entries, the key, the count
Imported(c, st, key, tracked, id) ==
    [rows |-> Db_add_repo_rows(st.rows, st.nid, tracked),
     nid |-> IF UniqueViolation(st.rows, tracked) THEN st.nid ELSE st.nid + 1,
     inst |-> AddInstalls(Db_add_install(st.inst, id, AddonsPath(c.folder), "raw"),
                          id, {AddonsPath(a) : a \in c.addons}, "addon"),
     known |-> st.known \cup {key},
     imported |-> st.imported + 1]

\* mutant: the keys of the tracked projects are not looked at
ImportKeyed_KnownUnchecked(c, det, st, key) ==
    IF c.addons = {} THEN st
    ELSE Imported(c, st, key, ImportedRepo(c, det),
                  Db_add_repo_id(st.rows, st.nid, ImportedRepo(c, det)))

\* lines 476-488: a clone of a known project or without addons is skipped
ImportKeyed(c, det, st, key) ==
    IF key \in st.known \/ c.addons = {} THEN st
    ELSE Imported(c, st, key, ImportedRepo(c, det),
                  Db_add_repo_id(st.rows, st.nid, ImportedRepo(c, det)))

\* lines 468-475: a clone whose origin is no project URL is skipped
ImportClone(c, det, st) ==
    IF ~det.ok THEN st ELSE ImportKeyed(c, det, st, repo_key(det.host, det.owner, det.name))

RECURSIVE ImportLoop(_, _)
\* the loop over read_dir (lines 445-528); st carries the store and `known`
ImportLoop(order, st) ==
    IF order = << >> THEN st
    ELSE ImportLoop(Tail(order), ImportClone(order[1], detect_repo(order[1].remote), st))

Orders(S) == {o \in [1..Cardinality(S) -> S] : \A i, j \in 1..Cardinality(S) : i # j => o[i] # o[j]}

\* lines 430-444: the store and the keys of the tracked projects
ImportStart ==
    [rows |-> repos, nid |-> nextId, inst |-> installs,
     known |-> {repo_key(r.host, r.owner, r.name) : r \in repos},
     imported |-> 0]

\* Engine::import_existing_addon_git_repos
ImportExisting ==
    /\ nextId + Cardinality(clones) <= MaxRepos + 1
    /\ \E order \in Orders(clones) :
         \E st \in {ImportLoop(order, ImportStart)} :
            /\ repos' = st.rows
            /\ nextId' = st.nid
            /\ installs' = st.inst
    /\ UNCHANGED <<rate_limits, clones, last, worldVars, runVars, pureVars>>

\* the user clones an addon repository into Interface/AddOns by hand
UserClones(c) ==
    /\ c \notin clones
    /\ clones' = clones \cup {c}
    /\ UNCHANGED <<storeVars, last, worldVars, runVars, pureVars>>

-----------------------------------------------------------------------------
(* lib.rs: check_updates_with_wow.  The builds of one call are polled on   *)
(* one thread: each runs alone from one suspension to the next.            *)

\* repos.chunks(4), line 890
CHUNK == 4

\* the byte order of the segments of the model, for ORDER BY host, owner, name
SegRank(x) ==
    CASE x = "" -> 0  [] x = "N" -> 1  [] x = "O" -> 2  [] x = "a" -> 3
      [] x = "b" -> 4 [] x = "c" -> 5  [] x = "codeberg" -> 6 [] x = "d" -> 7
      [] x = "e" -> 8 [] x = "example" -> 9 [] x = "git" -> 10 [] x = "github" -> 11
      [] x = "gitlab" -> 12 [] x = "n" -> 13 [] x = "o" -> 14 [] x = "org" -> 15
      [] OTHER -> 16

RECURSIVE LexLess(_, _)
LexLess(a, b) ==
    IF b = << >> THEN FALSE
    ELSE IF a = << >> THEN TRUE
    ELSE IF SegRank(a[1]) # SegRank(b[1]) THEN SegRank(a[1]) < SegRank(b[1])
    ELSE LexLess(Tail(a), Tail(b))

RowLess(r1, r2) ==
    IF r1.host # r2.host THEN LexLess(r1.host, r2.host)
    ELSE IF r1.owner # r2.owner THEN LexLess(r1.owner, r2.owner)
    ELSE LexLess(<<r1.name>>, <<r2.name>>)

RECURSIVE SortRows(_)
\* Db::list_repos: the rows ORDER BY host, owner, name
SortRows(rows) ==
    IF rows = {} THEN << >>
    ELSE LET m == CHOOSE r \in rows : \A x \in rows \ {r} : RowLess(r, x)
         IN <<m>> \o SortRows(rows \ {m})

IdsOf(rowseq) == [i \in 1..Len(rowseq) |-> rowseq[i].id]

NoPass ==
    [status |-> "idle", wow |-> FALSE, git |-> << >>, rel |-> << >>, chunk |-> 1,
     relplans |-> << >>, relres |-> "ok", cause |-> "", plans |-> << >>]

Settled(id) == task[id].pc \in {"done", "err"}

\* mutant: every release-mode row from the current chunk on is polled
ChunkIds_Unbounded(p) ==
    {p.rel[i] : i \in {j \in 1..Len(p.rel) : p.chunk <= j}}

\* the current chunk of the release-mode rows
ChunkIds(p) ==
    {p.rel[i] : i \in {j \in 1..Len(p.rel) : p.chunk <= j /\ j < p.chunk + CHUNK}}

Eligible(id) ==
    /\ pass.status = "running"
    /\ id \in DOMAIN task
    /\ \/ \E i \in 1..Len(pass.git) : pass.git[i] = id
       \/ pass.relres = "run" /\ id \in ChunkIds(pass)

\* lines 940-951: list_repos, the split by mode, the two futures created
ListAndSplit(wow, dbfail, rows, listed) ==
    IF dbfail = "list_repos"
    THEN /\ pass' = [NoPass EXCEPT !.status = "err", !.cause = "store", !.wow = wow]
         /\ task' = << >>
    ELSE /\ pass' = [NoPass EXCEPT
                       !.status = "running", !.wow = wow,
                       !.git = IdsOf(SelectSeq(listed, LAMBDA r : r.mode = "addon_git")),
                       !.rel = IdsOf(SelectSeq(listed, LAMBDA r : r.mode # "addon_git")),
                       !.relres = IF \E i \in 1..Len(listed) : listed[i].mode # "addon_git"
                                  THEN "run" ELSE "ok"]
         /\ task' = [id \in {r.id : r \in rows} |-> NewBuild(Row2(rows, id))]

\* lines 932-951: import, list_repos, the split by mode, the two futures created
StartPass(wow, dbfail) ==
    /\ pass.status # "running"
    /\ ap.pc \in {"idle", "ok", "failed"}
    /\ \E order \in IF wow THEN Orders(clones) ELSE {<< >>} :
         \E im \in {ImportLoop(order, ImportStart)} :
            /\ repos' = im.rows
            /\ nextId' = im.nid
            /\ installs' = im.inst
            /\ ListAndSplit(wow, dbfail, im.rows, SortRows(im.rows))
    /\ UNCHANGED <<rate_limits, clones, last, worldVars, relcache, net, ap, pureVars>>

\* mutant: the enabled flag of the row is not looked at
FirstRun_EnabledUnchecked(st, wow, dbfail) ==
    IF st.t.r.mode = "addon_git" THEN StartGit(st, installs, disk, wow)
    ELSE StartRelease(st, installs, disk, wow, TRUE, token, now, dbfail)

\* lines 713-720: a disabled row has its blank plan, a git-synced row its own builder
FirstRun(st, wow, dbfail) ==
    IF ~st.t.r.enabled THEN Finish(st, blank_plan(st.t.r))
    ELSE IF st.t.r.mode = "addon_git" THEN StartGit(st, installs, disk, wow)
    ELSE StartRelease(st, installs, disk, wow, TRUE, token, now, dbfail)

\* the build of id has run to out: what it wrote, and where it stands
Ran(id, out) ==
    /\ repos' = out.repos
    /\ rate_limits' = out.rate_limits
    /\ relcache' = out.relcache
    /\ task' = [task EXCEPT ![id] = out.t]

\* a build runs from its call to its first suspension or to its result
TaskStart(id, dbfail) ==
    /\ Eligible(id)
    /\ task[id].pc = "wait"
    /\ Ran(id, FirstRun(BuildState(repos, rate_limits, relcache, task[id]), pass.wow, dbfail))
    /\ UNCHANGED <<nextId, installs, clones, last, worldVars, net, pass, ap, pureVars>>

\* a release-mode build resumes with the forge's answer
TaskFetched(id, fault) ==
    /\ Eligible(id)
    /\ task[id].pc = "fetch"
    /\ Ran(id, ResumeRelease(BuildState(repos, rate_limits, relcache, task[id]),
                             forge, now, fault))
    /\ UNCHANGED <<nextId, installs, clones, last, worldVars, net, pass, ap, pureVars>>

\* a git-mode build resumes with the answer of the blocking worker
TaskGitAnswered(id, remote, dbfail) ==
    /\ Eligible(id)
    /\ task[id].pc = "git"
    /\ task' = [task EXCEPT ![id] =
                  ResumeGit(BuildState(repos, rate_limits, relcache, task[id]),
                            installs, disk, remote, dbfail).t]
    /\ UNCHANGED <<storeVars, clones, last, worldVars, relcache, net, pass, ap, pureVars>>

\* the first failed build of a sequence of ids, 0 if none
FirstErr(ids) ==
    IF \E i \in 1..Len(ids) : task[ids[i]].pc = "err"
    THEN ids[CHOOSE i \in 1..Len(ids) :
               task[ids[i]].pc = "err" /\ \A j \in 1..(i - 1) : task[ids[j]].pc # "err"]
    ELSE 0

PlansOf(ids) == [i \in 1..Len(ids) |-> task[ids[i]].plan]

\* mutant: a chunk that is not full is dropped
ChunkPlans_FullOnly(p) ==
    IF p.chunk + CHUNK - 1 <= Len(p.rel)
    THEN PlansOf(SubSeq(p.rel, p.chunk, p.chunk + CHUNK - 1))
    ELSE << >>

\* lines 891-926: the plans a joined chunk pushes
ChunkPlans(p) ==
    PlansOf(SubSeq(p.rel, p.chunk,
                   IF p.chunk + CHUNK - 1 <= Len(p.rel) THEN p.chunk + CHUNK - 1 ELSE Len(p.rel)))

\* check_updates_batched: the join of the current chunk returns
BatchJoin ==
    /\ pass.status = "running"
    /\ pass.relres = "run"
    /\ \A id \in ChunkIds(pass) : Settled(id)
    /\ LET ids == SubSeq(pass.rel, pass.chunk,
                         IF pass.chunk + CHUNK - 1 <= Len(pass.rel)
                         THEN pass.chunk + CHUNK - 1 ELSE Len(pass.rel))
           bad == FirstErr(ids)
       IN pass' = IF bad # 0
                  THEN [pass EXCEPT !.relres = "err", !.cause = task[bad].cause]
                  ELSE [pass EXCEPT !.relplans = @ \o ChunkPlans(pass),
                                    !.chunk = @ + CHUNK,
                                    !.relres = IF pass.chunk + CHUNK > Len(pass.rel)
                                               THEN "ok" ELSE "run"]
    /\ UNCHANGED <<storeVars, clones, last, worldVars, relcache, net, task, ap, pureVars>>

\* lines 948-956: both futures have completed
FinishPass ==
    /\ pass.status = "running"
    /\ pass.relres # "run"
    /\ \A i \in 1..Len(pass.git) : Settled(pass.git[i])
    /\ pass' = IF FirstErr(pass.git) # 0
               THEN [pass EXCEPT !.status = "err", !.cause = task[FirstErr(pass.git)].cause]
               ELSE IF pass.relres = "err" THEN [pass EXCEPT !.status = "err"]
               ELSE [pass EXCEPT !.status = "ok",
                                 !.plans = PlansOf(pass.git) \o pass.relplans]
    /\ UNCHANGED <<storeVars, clones, last, worldVars, relcache, net, task, ap, pureVars>>

\* Engine::set / clear of the process-wide credential (set_github_token)
SetToken(b) ==
    /\ token' = b
    /\ token # b
    /\ UNCHANGED <<storeVars, clones, last, now, forge, disk, dlcache, runVars, pureVars>>

\* time passes: the clock reaches a later instant of Times
Tick(t) ==
    /\ t > now
    /\ now' = t
    /\ UNCHANGED <<storeVars, clones, last, token, forge, disk, dlcache, runVars, pureVars>>

-----------------------------------------------------------------------------
(* The store specification: the Repo Store operations in any order.        *)

StoreUrls ==
    {MkUrl("https", GithubCom, <<"o", "n">>),
     MkUrl("https", GithubCom, <<"o", "n.git">>),
     MkUrl("https", GithubCom, <<"o", "n", "releases", "latest">>),
     MkUrl("http", GithubCom, <<"o", "n">>),
     MkUrl("https", GithubCom, <<"O", "n">>),
     MkUrl("https", GithubCom, <<"o">>),
     InvalidUrl}

StoreModes == {"addon", "addon_git"}


\* Engine::open on a fresh store
FreshStore ==
    /\ repos = {}
    /\ nextId = 1
    /\ installs = {}
    /\ rate_limits = {}

\* no check pass and no apply in progress, the process-wide release cache empty
IdleRun ==
    /\ relcache = << >>
    /\ net = {}
    /\ pass = NoPass
    /\ task = << >>
    /\ ap = NoApply

\* no forge content, nothing on disk
EmptyWorld ==
    /\ forge = << >>
    /\ disk = << >>
    /\ dlcache = << >>

NoPure ==
    /\ pin = << >>
    /\ pout = << >>

Init ==
    /\ FreshStore
    /\ token = FALSE
    /\ now = 0
    /\ clones = {}
    /\ last = InitLast
    /\ EmptyWorld
    /\ IdleRun
    /\ NoPure

Ids == 1..(nextId - 1)

Times == {0, 5, 50}
Epochs == {5, 50}

NextStore ==
    \/ \E u \in StoreUrls, m \in StoreModes : AddRepo(u, m, None)
    \/ \E id \in Ids, b \in BOOLEAN : SetRepoEnabled(id, b)
    \/ \E id \in Ids : SetRepoGitBranch(id, "dev")
    \/ \E id \in Ids : UpdateEtag(id, "e1")
    \/ \E id \in Ids : SetInstalledAssetState(id, "v1", "a1")
    \/ \E id \in Ids, remove_local_files \in BOOLEAN :
          RemoveRepo(id, TRUE, remove_local_files, "")
    \/ \E c \in CloneCatalog : UserClones(c)
    \/ ImportExisting

SpecStore == Init /\ [][NextStore]_vars

\* C1: the store never holds two rows with the same (host, owner, name), and
\* add_repo for an identity already present returns the existing row's id,
\* creates no row and leaves every stored row as it was.
UniqueIdentity ==
    \A r1, r2 \in repos : Identity(r1) = Identity(r2) => r1 = r2

AddExistingStep ==
    (/\ last'.tick # last.tick
     /\ last'.op = "add_repo"
     /\ last'.ok
     /\ \E r \in repos : Identity(r) = last'.key)
    => /\ repos' = repos
       /\ nextId' = nextId
       /\ installs' = installs
       /\ \E r \in repos : Identity(r) = last'.key /\ r.id = last'.id

C1_UniqueIdempotentAdd == []UniqueIdentity /\ [][AddExistingStep]_vars

\* witness: an add of a present identity, whose row no longer has the
\* defaults and whose mode differs from the one asked for, has returned
C1_Witness ==
    /\ last.op = "add_repo" /\ last.ok
    /\ Cardinality(repos) = 2
    /\ \E r \in repos : /\ r.id = last.id /\ r.id < nextId - 1
                        /\ r.etag # None /\ ~r.enabled
                        /\ r.installed_asset_id # None

-----------------------------------------------------------------------------
(* pick_asset as a function of its inputs                                  *)

MaxAssets == 2

AssetNames ==
    {<<"a", ".", "zip">>, <<"a", ".", "ZIP">>, <<" ", "a", ".", "zip", " ">>,
     <<"a", ".", "exe">>, <<"a", ".", "EXE">>, <<"a", ".", "exe", " ">>,
     <<".", "exe">>, <<"a", ".", "exe", ".">>, <<"a", ".", "sh">>,
     <<"a", ".", "dll">>, <<"a", ".", "txt">>, <<"a">>, << >>,
     <<"VanillaFixes", ".", "zip">>, <<"VanillaFixes", "-DXVK", ".", "zip">>}

AllModes == {"auto", "addon", "addon_git", "dll", "mixed", "raw"}
Regexes == {None, Some("("), Some("exe$"), Some("dll$"), Some("dxvk"), Some(".")}

AssetLists ==
    UNION {[1..n -> [name : AssetNames]] : n \in 0..MaxAssets}

InitPick ==
    /\ FreshStore
    /\ token = FALSE
    /\ now = 0
    /\ clones = {}
    /\ last = InitLast
    /\ EmptyWorld
    /\ IdleRun
    /\ pin \in [assets : AssetLists, mode : AllModes, asset_regex : Regexes]
    /\ pout = << >>

PickAsset ==
    /\ pout = << >>
    /\ pout' = pick_asset([tag |-> "v1", assets |-> pin.assets], pin.mode, pin.asset_regex)
    /\ UNCHANGED <<storeVars, worldVars, runVars, clones, last, pin>>

SpecPick == InitPick /\ [][PickAsset]_vars

\* the extension of a name as its reader sees it: what follows the last "."
\* of the trimmed name, lower-cased; none without a "."
NameExt(n) ==
    LET t == Trim(n)
        d == LastDot(t)
    IN IF d = 0 \/ d = Len(t) THEN None ELSE Some(Lower(t[Len(t)]))

NameAllowed(n, mode) ==
    /\ Trim(n) # << >>
    /\ IF NameExt(n) = None THEN mode = "raw"
       ELSE /\ ~is_blocked_extension(Unwrap(NameExt(n)))
            /\ \/ mode = "raw"
               \/ mode \in {"addon", "mixed"} /\ Unwrap(NameExt(n)) = "zip"
               \/ mode \in {"dll", "auto"} /\ Unwrap(NameExt(n)) \in {"dll", "zip"}

\* C10: pick_asset never returns an asset whose extension is block-listed or
\* incompatible with the mode; an extensionless asset is returned only in raw
\* mode; a list holding a .zip asset yields an asset in addon, mixed, dll and
\* automatic modes; when no asset is allowed the result is an error.
C10_AssetPolicy ==
    pout # << >> =>
      /\ pout.ok => NameAllowed(pout.asset.name, pin.mode)
      /\ (/\ pin.mode \in {"addon", "mixed", "dll", "auto"}
          /\ pin.asset_regex = None
          /\ \E i \in 1..Len(pin.assets) : NameExt(pin.assets[i].name) = Some("zip"))
         => pout.ok
      /\ (\A i \in 1..Len(pin.assets) : ~NameAllowed(pin.assets[i].name, pin.mode))
         => ~pout.ok

-----------------------------------------------------------------------------
(* The check specification: check passes over a small store while time     *)
(* passes, the credential is set and cleared, and the forges answer or fail*)

\* Engine::add_repo of (det, mode) on a fresh store
AddRow(det, mode, rows) ==
    IF det.ok THEN Db_add_repo_rows(rows, Cardinality(rows) + 1, NewRepo(det, mode, None))
    ELSE rows

RECURSIVE BuildRows(_, _)
\* the table after Engine::add_repo for each (url, mode) of adds, on a fresh store
BuildRows(adds, rows) ==
    IF adds = << >> THEN rows
    ELSE BuildRows(Tail(adds), AddRow(detect_repo(adds[1][1]), adds[1][2], rows))

Asset(id, name, url, size, sha) ==
    [id |-> id, name |-> name, download_url |-> url, size |-> size, sha256 |-> sha]

DownloadUrl(host, file) == MkUrl("https", host, <<"o", "n", "releases", "download", file>>)

\* what the forges of the model publish
ForgeV1 ==
    (<<GithubCom, <<"o", "n">>>> :>
        Some([tag |-> "v1", etag |-> Some("e1"),
              assets |-> <<Asset(Some("a1"), <<"a", ".", "zip">>,
                                 DownloadUrl(GithubCom, "a.zip"), Some(1), None)>>]))
    @@ (<<CodebergOrg, <<"o", "n">>>> :>
        Some([tag |-> "v1", etag |-> None,
              assets |-> <<Asset(Some("b1"), <<"a", ".", "exe">>,
                                 DownloadUrl(CodebergOrg, "a.exe"), Some(1), None)>>]))

CheckStore ==
    << <<MkUrl("https", GithubCom, <<"o", "n">>), "addon">>,
       <<MkUrl("https", CodebergOrg, <<"o", "n">>), "addon">> >>


GithubFaults ==
    {PlainMsg("none"), PlainMsg("request_failed"), Msg("http", None, Some(50)),
     Msg("rate", None, None)}
      \cup {Msg("rate", Some(e), None) : e \in Epochs}

FaultsFor(id) ==
    IF id \in DOMAIN task /\ task[id].r.forge = "github" THEN GithubFaults
    ELSE {PlainMsg("none"), PlainMsg("request_failed")}

InitCheck ==
    /\ repos = BuildRows(CheckStore, {})
    /\ nextId = Cardinality(BuildRows(CheckStore, {})) + 1
    /\ installs = {}
    /\ rate_limits = {}
    /\ token = FALSE
    /\ now = 0
    /\ clones = {}
    /\ last = InitLast
    /\ forge = ForgeV1
    /\ disk = << >>
    /\ dlcache = << >>
    /\ IdleRun
    /\ NoPure

\* check_updates() is check_updates_with_wow(None)
NextCheck ==
    \/ \E f \in {"", "list_repos"} : StartPass(FALSE, f)
    \/ \E id \in Ids, f \in {"", "get_rate_limit"} : TaskStart(id, f)
    \/ \E id \in Ids : \E fault \in FaultsFor(id) : TaskFetched(id, fault)
    \/ BatchJoin
    \/ FinishPass
    \/ \E b \in BOOLEAN : SetToken(b)
    \/ \E t \in Times : Tick(t)
    \/ \E id \in Ids, b \in BOOLEAN : SetRepoEnabled(id, b)

SpecCheck == InitCheck /\ [][NextCheck]_vars

\* the build of id took its first step
Started(id) ==
    /\ id \in DOMAIN task /\ id \in DOMAIN task'
    /\ task[id].pc = "wait" /\ task'[id].pc # "wait"

\* id is an enabled release-mode project of the GitHub dialect whose host has the cooldown T
GatedProject(id, T) ==
    /\ task[id].r.enabled
    /\ task[id].r.mode # "addon_git"
    /\ detect_repo(task[id].r.url).ok
    /\ detect_repo(task[id].r.url).kind = "GitHub"
    /\ Db_get_rate_limit(rate_limits, task[id].r.host) = Some(T)

\* C4: with a cooldown T persisted for the project's host, no credential and
\* now < T, a release-mode check sends no request and returns the error plan
\* reporting T; with now >= T the check deletes the cooldown and goes on to
\* the forge fetch (store reads succeeding).
C4_GateStep ==
    \A id \in Ids : \A T \in Epochs :
      (Started(id) /\ GatedProject(id, T) /\ ~token /\ task'[id].pc # "err") =>
        IF now < T
        THEN /\ task'[id].pc = "done"
             /\ task'[id].calls = 0
             /\ task'[id].plan = [blank_plan(task[id].r) EXCEPT
                                    !.error = Some(Msg("rate_limited_until", Some(T), None))]
             /\ rate_limits' = rate_limits
             /\ net' = net
        ELSE /\ Db_get_rate_limit(rate_limits', task[id].r.host) = None
             /\ ~task'[id].gated
             /\ \/ task'[id].pc = "fetch" /\ task'[id].calls = 1
                \/ cache_key(detect_repo(task[id].r.url)) \in DOMAIN relcache

C4_RateLimitGating == [][C4_GateStep]_vars

\* witness: a check was short-circuited on a cooldown still in the future,
\* after an earlier cooldown had expired and been replaced
C4_Witness ==
    \E id \in DOMAIN task :
        /\ task[id].gated
        /\ task[id].plan.error = Some(Msg("rate_limited_until", Some(50), None))
        /\ now = 5
        /\ ~token

\* a cooldown T is written for host h in this step
CooldownWritten(h, T) ==
    /\ Db_get_rate_limit(rate_limits', h) = Some(T)
    /\ Db_get_rate_limit(rate_limits, h) # Some(T)

\* the build of id received the failure msg in this step
Received(id, msg) ==
    /\ id \in DOMAIN task /\ id \in DOMAIN task'
    /\ task[id].pc = "fetch" /\ task'[id].pc # "fetch"
    /\ task'[id].res = msg

\* C5: a cooldown is written exactly when a forge fetch fails with a
\* rate-limit signal carrying a reset epoch T: T is then persisted for the
\* host and the build returns the "rate limited until T" plan without
\* retrying; a check made after T or with a credential deletes the cooldown.
C5_CooldownStep ==
    /\ \A r \in repos : \A T \in Epochs :
          CooldownWritten(r.host, T) =>
            \E id \in DOMAIN task : /\ task[id].r.host = r.host
                                    /\ Received(id, Msg("rate", Some(T), None))
    /\ \A id \in Ids : \A T \in Epochs :
          Received(id, Msg("rate", Some(T), None)) =>
            /\ Db_get_rate_limit(rate_limits', task[id].r.host) = Some(T)
            /\ task'[id].pc = "done"
            /\ task'[id].plan.error = Some(Msg("rate_limited_until", Some(T), None))
    /\ \A id \in Ids : \A T \in Epochs :
          (Started(id) /\ GatedProject(id, T) /\ (token \/ now >= T)
             /\ task'[id].pc # "err")
            => Db_get_rate_limit(rate_limits', task[id].r.host) = None

C5_CooldownWrittenOnSignal == [][C5_CooldownStep]_vars

-----------------------------------------------------------------------------
(* The pass specification: one check_updates_with_wow call after another   *)
(* over stores of git-mode and release-mode projects, any build failing.   *)

PassStores ==
    {<< <<MkUrl("https", GithubCom, <<"o", "n">>), "addon">>,
        <<MkUrl("https", GithubCom, <<"O", "n">>), "dll">>,
        <<MkUrl("https", GithubCom, <<"o", "N">>), "raw">>,
        <<MkUrl("https", CodebergOrg, <<"o", "n">>), "addon">>,
        <<MkUrl("https", GitlabCom, <<"a", "b", "n">>), "auto">>,
        <<MkUrl("https", GithubCom, <<"a", "n">>), "addon_git">>,
        <<MkUrl("https", GithubCom, <<"b", "n">>), "addon_git">> >>,
     << <<MkUrl("https", GithubCom, <<"o", "n">>), "addon">>,
        <<MkUrl("https", GithubCom, <<"o", ".git">>), "addon">>,
        <<MkUrl("https", GithubCom, <<"a", "n">>), "addon_git">> >>}

InitPass ==
    /\ \E adds \in PassStores :
          /\ repos = BuildRows(adds, {})
          /\ nextId = Cardinality(BuildRows(adds, {})) + 1
    /\ installs = {}
    /\ rate_limits = {}
    /\ token = FALSE
    /\ now = 0
    /\ clones = {}
    /\ last = InitLast
    /\ forge = ForgeV1
    /\ disk = << >>
    /\ dlcache = << >>
    /\ IdleRun
    /\ NoPure

NextPass ==
    \/ \E f \in {"", "list_repos"} : StartPass(TRUE, f)
    \/ \E id \in Ids, f \in {"", "list_installs"} : TaskStart(id, f)
    \/ \E id \in Ids, fault \in {PlainMsg("none"), PlainMsg("request_failed")} :
          TaskFetched(id, fault)
    \/ \E id \in Ids, remote \in {None, Some(GitHead("c1", "master"))},
          f \in {"", "list_installs"} : TaskGitAnswered(id, remote, f)
    \/ BatchJoin
    \/ FinishPass

SpecPass == InitPass /\ [][NextPass]_vars

PlanIds(plans) == {plans[i].repo_id : i \in 1..Len(plans)}

\* C7: a successful check_updates_with_wow returns exactly one plan per
\* tracked project: every tracked id occurs once, no other id occurs.
C7_OnePlanPerProject ==
    pass.status = "ok" =>
      /\ PlanIds(pass.plans) = {r.id : r \in repos}
      /\ Len(pass.plans) = Cardinality(repos)

\* witness: a pass over two git-mode and more than CHUNK release-mode
\* projects succeeded, one build of it having failed on its forge
C7_Witness ==
    /\ pass.status = "ok"
    /\ Len(pass.git) >= 2
    /\ Len(pass.rel) > CHUNK
    /\ \E i \in 1..Len(pass.plans) : pass.plans[i].error = Some(PlainMsg("request_failed"))

\* C6: a failure of one project's build is recorded in that project's plan
\* and every other project still gets its plan; only a failure of the
\* store makes the whole call return an error.
C6_FailureIsolation ==
    /\ pass.status = "err" => pass.cause = "store"
    /\ pass.status = "ok" => PlanIds(pass.plans) = {r.id : r \in repos}

-----------------------------------------------------------------------------
(* lib.rs: the asset checks of apply_one.  A file of the download cache is *)
(* the record of its length, of its first bytes ("PK" for one of the zip   *)
(* signatures, "MZ" for a DLL's, "??" for anything else), of its SHA-256   *)
(* and of the asset its payload is.                                        *)

File(len, head, sha, aid) == [len |-> len, head |-> head, sha |-> sha, aid |-> aid]

\* Engine::host_matches_or_subdomain, hosts being sequences of labels
host_matches_or_subdomain(host, trusted) ==
    \/ LowerSeq(host) = LowerSeq(trusted)
    \/ /\ Len(host) > Len(trusted)
       /\ SubSeq(LowerSeq(host), Len(host) - Len(trusted) + 1, Len(host)) = LowerSeq(trusted)

\* lines 1102-1110: the hosts a plan trusts
trusted_hosts(plan) ==
    {plan.host} \cup
    IF eq_ignore_ascii_case(plan.forge, "github")
    THEN {GithubCom, <<"objects", "githubusercontent", "com">>,
          <<"release-assets", "githubusercontent", "com">>, <<"codeload", "github", "com">>}
    ELSE {}

\* mutant: the scheme of the URL is not looked at
validate_asset_url_AnyScheme(plan) ==
    IF ~UrlParses(plan.asset_url) THEN "invalid URL"
    ELSE IF plan.asset_url.host = << >> THEN "Asset URL missing host"
    ELSE IF \E h \in trusted_hosts(plan) : host_matches_or_subdomain(plan.asset_url.host, h)
    THEN ""
    ELSE "Blocked asset host"

\* Engine::validate_asset_url: "" for Ok, else the error
validate_asset_url(plan) ==
    IF ~UrlParses(plan.asset_url) THEN "invalid URL"
    ELSE IF plan.asset_url.scheme # "https" THEN "Blocked non-HTTPS asset URL"
    ELSE IF plan.asset_url.host = << >> THEN "Asset URL missing host"
    ELSE IF \E h \in trusted_hosts(plan) : host_matches_or_subdomain(plan.asset_url.host, h)
    THEN ""
    ELSE "Blocked asset host"

looks_like_zip_bytes(head) == head = "PK"
looks_like_dll_bytes(head) == head = "MZ"

\* mutant: the first bytes of the file are not looked at
validate_downloaded_asset_SizeOnly(cache, path, plan) ==
    IF path \notin DOMAIN cache THEN "Downloaded asset not found"
    ELSE IF plan.asset_size # None /\ cache[path].len # Unwrap(plan.asset_size)
    THEN "Downloaded asset size mismatch"
    ELSE ""

\* Engine::validate_downloaded_asset of the file at path: "" for Ok
validate_downloaded_asset(cache, path, plan) ==
    IF path \notin DOMAIN cache THEN "Downloaded asset not found"
    ELSE IF plan.asset_size # None /\ cache[path].len # Unwrap(plan.asset_size)
    THEN "Downloaded asset size mismatch"
    ELSE IF EndsWithExt(plan.asset_name, "zip") /\ ~looks_like_zip_bytes(cache[path].head)
    THEN "Downloaded ZIP asset failed signature check"
    ELSE IF EndsWithExt(plan.asset_name, "dll") /\ ~looks_like_dll_bytes(cache[path].head)
    THEN "Downloaded DLL asset failed signature check"
    ELSE ""

\* Engine::verify_asset_digest: "" for Ok
verify_asset_digest(cache, path, expected_sha256) ==
    IF expected_sha256 = None \/ Unwrap(expected_sha256) = "" THEN ""
    ELSE IF path \notin DOMAIN cache THEN "cannot read file"
    ELSE IF cache[path].sha # Lower(Unwrap(expected_sha256)) THEN "SHA-256 mismatch"
    ELSE ""

\* lines 1733-1739: release_cache_dir(plan) joined with the asset's file name
asset_path(plan) ==
    <<plan.forge, plan.host, plan.owner, plan.name, plan.latest, plan.asset_id,
      plan.asset_name>>

\* mutant: the file already in the cache is not looked at
should_download_Always(cache, path, plan) == TRUE

\* lines 1742-1750
should_download(cache, path, plan) ==
    IF path \notin DOMAIN cache THEN TRUE
    ELSE IF plan.asset_size # None /\ cache[path].len # Unwrap(plan.asset_size) THEN TRUE
    ELSE plan.asset_sha256 # None /\ verify_asset_digest(cache, path, plan.asset_sha256) # ""

\* lines 1754-1755: the two checks on the file apply_one is about to install
IntegrityErr(cache, path, plan) ==
    IF validate_downloaded_asset(cache, path, plan) # ""
    THEN validate_downloaded_asset(cache, path, plan)
    ELSE verify_asset_digest(cache, path, plan.asset_sha256)

\* Engine::looks_like_zip: the asset's name, or the extension of its cache path
looks_like_zip(name) ==
    EndsWithExt(name, "zip") \/ PathExtension(name) = Some(<<"zip">>)

-----------------------------------------------------------------------------
(* lib.rs: the release label, character by character.  A string is the     *)
(* tuple of its characters; the regular expression of                      *)
(* version_from_asset_name is matched the way the regex crate matches it:  *)
(* leftmost start, greedy repetitions, \b between a word character         *)
(* (letter, digit or "_") and anything else.                               *)

Digits == {"0", "1", "2", "3", "4", "5", "6", "7", "8", "9"}
UpperLetters == <<"A", "B", "C", "D", "E", "F", "G", "H", "I", "J", "K", "L", "M", "N", "O", "P",
    "Q", "R", "S", "T", "U", "V", "W", "X", "Y", "Z">>
LowerLetters == <<"a", "b", "c", "d", "e", "f", "g", "h", "i", "j", "k", "l", "m", "n", "o", "p",
    "q", "r", "s", "t", "u", "v", "w", "x", "y", "z">>

LowerCh(c) ==
    IF \E i \in 1..Len(UpperLetters) : UpperLetters[i] = c
    THEN LowerLetters[CHOOSE i \in 1..Len(UpperLetters) : UpperLetters[i] = c]
    ELSE c

\* str::to_ascii_lowercase
LowerChars(s) == [i \in 1..Len(s) |-> LowerCh(s[i])]

IsLetter(c) == \E i \in 1..Len(UpperLetters) : c \in {UpperLetters[i], LowerLetters[i]}

\* \w of the regex crate, on the characters of the model
IsWordCh(c) == c \in Digits \/ IsLetter(c) \/ c = "_"

\* str::trim
TrimChars(s) ==
    IF \A i \in 1..Len(s) : s[i] = " " THEN << >>
    ELSE SubSeq(s, CHOOSE i \in 1..Len(s) : s[i] # " " /\ \A j \in 1..(i - 1) : s[j] = " ",
                   CHOOSE i \in 1..Len(s) : s[i] # " " /\ \A j \in (i + 1)..Len(s) : s[j] = " ")

\* str::starts_with
StartsWithChars(s, prefix) == Len(s) >= Len(prefix) /\ SubSeq(s, 1, Len(prefix)) = prefix

\* Engine::is_generic_release_label
IsGenericReleaseLabel(label) ==
    \/ TrimChars(label) = << >>
    \/ LowerChars(TrimChars(label)) \in {<<"r", "e", "l", "e", "a", "s", "e">>, <<"l", "a", "t",
        "e", "s", "t">>, <<"s", "t", "a", "b", "l", "e">>, <<"c", "u", "r", "r", "e", "n", "t">>,
            <<"d", "o", "w", "n", "l", "o", "a", "d">>}
    \/ \E w \in {<<"r", "e", "l", "e", "a", "s", "e", " ">>, <<"l", "a", "t", "e", "s", "t",
        " ">>, <<"s", "t", "a", "b", "l", "e",
            " ">>} : StartsWithChars(LowerChars(TrimChars(label)), w)

\* \b after the first i characters of s
WordBoundary(s, i) ==
    (i >= 1 /\ i <= Len(s) /\ IsWordCh(s[i])) # (i + 1 <= Len(s) /\ IsWordCh(s[i + 1]))

\* the end of the longest run of characters of S that starts at i (i - 1 when there is none)
RunEnd(s, i, S) ==
    CHOOSE j \in (i - 1)..Len(s) :
        /\ \A k \in i..j : s[k] \in S
        /\ j = Len(s) \/ s[j + 1] \notin S

\* [._]\d+ after the first e characters: its end, 0 without a match (0 stays 0)
GroupEnd(s, e) ==
    IF e # 0 /\ e + 2 <= Len(s) /\ s[e + 1] \in {".", "_"} /\ RunEnd(s, e + 2, Digits) >= e + 2
    THEN RunEnd(s, e + 2, Digits)
    ELSE 0

\* [0-9A-Za-z.-]
SuffixChars ==
    Digits \cup {".", "-"} \cup {UpperLetters[i] : i \in 1..Len(UpperLetters)}
        \cup {LowerLetters[i] : i \in 1..Len(LowerLetters)}

\* (?:[-+][0-9A-Za-z.-]+)?\b after the first e characters: the longest
\* suffix that ends at a boundary, else no suffix, else 0
TailEnd(s, e) ==
    IF e = 0 THEN 0
    ELSE IF /\ e + 2 <= Len(s)
            /\ s[e + 1] \in {"-", "+"}
            /\ \E f \in (e + 2)..RunEnd(s, e + 2, SuffixChars) : WordBoundary(s, f)
    THEN CHOOSE f \in (e + 2)..RunEnd(s, e + 2, SuffixChars) :
            /\ WordBoundary(s, f)
            /\ \A g \in (f + 1)..RunEnd(s, e + 2, SuffixChars) : ~WordBoundary(s, g)
    ELSE IF WordBoundary(s, e) THEN e
    ELSE 0

\* (?:[._]\d+){1,3} and the rest, after the first number ended at d: three
\* groups are tried before two, two before one
GroupsEnd(s, d) ==
    IF TailEnd(s, GroupEnd(s, GroupEnd(s, GroupEnd(s, d)))) # 0
    THEN TailEnd(s, GroupEnd(s, GroupEnd(s, GroupEnd(s, d))))
    ELSE IF TailEnd(s, GroupEnd(s, GroupEnd(s, d))) # 0
    THEN TailEnd(s, GroupEnd(s, GroupEnd(s, d)))
    ELSE TailEnd(s, GroupEnd(s, d))

\* the end of the match of the whole expression that starts at p, 0 without one
MatchAt(s, p) ==
    IF ~WordBoundary(s, p - 1) THEN 0
    ELSE IF s[p] \in {"v", "V"}
    THEN IF RunEnd(s, p + 1, Digits) >= p + 1 THEN GroupsEnd(s, RunEnd(s, p + 1, Digits))
         ELSE 0
    ELSE IF s[p] \in Digits THEN GroupsEnd(s, RunEnd(s, p, Digits))
    ELSE 0

\* Regex::find: the match of the leftmost start
RegexFind(s) ==
    IF \A p \in 1..Len(s) : MatchAt(s, p) = 0 THEN None
    ELSE Some(SubSeq(s, CHOOSE p \in 1..Len(s) :
                             MatchAt(s, p) # 0 /\ \A q \in 1..(p - 1) : MatchAt(s, q) = 0,
                        MatchAt(s, CHOOSE p \in 1..Len(s) :
                             MatchAt(s, p) # 0 /\ \A q \in 1..(p - 1) : MatchAt(s, q) = 0)))

\* Engine::version_from_asset_name
VersionFromAssetName(asset_name) ==
    IF RegexFind(asset_name) = None \/ TrimChars(Unwrap(RegexFind(asset_name))) = << >>
    THEN None
    ELSE Some([i \in 1..Len(TrimChars(Unwrap(RegexFind(asset_name)))) |->
                 IF TrimChars(Unwrap(RegexFind(asset_name)))[i] = "_" THEN "."
                 ELSE TrimChars(Unwrap(RegexFind(asset_name)))[i]])

\* Engine::effective_latest_label
EffectiveLatestLabel(tag, asset_name) ==
    IF ~IsGenericReleaseLabel(TrimChars(tag)) THEN TrimChars(tag)
    ELSE IF VersionFromAssetName(asset_name) # None
    THEN Unwrap(VersionFromAssetName(asset_name))
    ELSE TrimChars(tag)

-----------------------------------------------------------------------------
(* install.rs: normalize_toc_stem, on strings as tuples of characters      *)

\* the table SUFFIXES, in its order
SUFFIXES ==
    <<<<"-", "c", "l", "a", "s", "s", "i", "c">>, <<"_", "c", "l", "a", "s", "s", "i", "c">>,
    <<"-", "b", "c", "c">>, <<"_", "b", "c", "c">>, <<"-", "v", "a", "n", "i", "l", "l", "a">>,
    <<"_", "v", "a", "n", "i", "l", "l", "a">>, <<"-", "t", "b", "c">>, <<"_", "t", "b", "c">>,
    <<"-", "m", "a", "i", "n", "l", "i", "n", "e">>, <<"_", "m", "a", "i", "n", "l", "i", "n",
    "e">>, <<"-", "w", "r", "a", "t", "h">>, <<"_", "w", "r", "a", "t", "h">>, <<"-", "w", "o",
    "t", "l", "k">>, <<"_", "w", "o", "t", "l", "k">>, <<"-", "w", "o", "t", "l", "k", "c">>,
    <<"_", "w", "o", "t", "l", "k", "c">>, <<"-", "e", "r", "a">>, <<"_", "e", "r", "a">>, <<"-",
    "c", "l", "a", "s", "s", "i", "c", "e", "r", "a">>, <<"_", "c", "l", "a", "s", "s", "i", "c",
    "e", "r", "a">>, <<"-", "r", "e", "t", "a", "i", "l">>, <<"_", "r", "e", "t", "a", "i",
    "l">>, <<"-", "c", "a", "t", "a">>, <<"_", "c", "a", "t", "a">>, <<"-", "s", "o", "d">>,
    <<"_", "s", "o", "d">>>>

\* str::ends_with
EndsWithChars(s, suffix) ==
    Len(s) >= Len(suffix) /\ SubSeq(s, Len(s) - Len(suffix) + 1, Len(s)) = suffix

\* str::trim_end_matches(['-', '_'])
TrimEndMatches(s) ==
    IF \A i \in 1..Len(s) : s[i] \in {"-", "_"} THEN << >>
    ELSE SubSeq(s, 1, CHOOSE i \in 1..Len(s) :
                         s[i] \notin {"-", "_"} /\ \A j \in (i + 1)..Len(s) : s[j] \in {"-", "_"})

\* the for loop of lines 547-555: the first suffix of the table that out
\* ends with and is longer than, 0 if none
FirstSuffix(out) ==
    IF \E i \in 1..Len(SUFFIXES) :
          EndsWithChars(LowerChars(out), SUFFIXES[i]) /\ Len(out) > Len(SUFFIXES[i])
    THEN CHOOSE i \in 1..Len(SUFFIXES) :
            /\ EndsWithChars(LowerChars(out), SUFFIXES[i]) /\ Len(out) > Len(SUFFIXES[i])
            /\ \A j \in 1..(i - 1) :
                  ~(EndsWithChars(LowerChars(out), SUFFIXES[j]) /\ Len(out) > Len(SUFFIXES[j]))
    ELSE 0

\* lines 549-551: truncate, trim_end_matches, trim
Truncated(out, suffix) ==
    TrimChars(TrimEndMatches(SubSeq(out, 1, Len(out) - Len(suffix))))

\* the loop of lines 545-560
RECURSIVE StripSuffixes(_)
StripSuffixes(out) ==
    IF FirstSuffix(out) = 0 THEN out
    ELSE StripSuffixes(Truncated(out, SUFFIXES[FirstSuffix(out)]))

\* mutant: the loop of lines 545-560 runs once
normalize_toc_stem_Once(stem) ==
    IF TrimChars(stem) = << >> THEN << >>
    ELSE IF FirstSuffix(TrimChars(stem)) = 0 THEN TrimChars(stem)
    ELSE IF Truncated(TrimChars(stem), SUFFIXES[FirstSuffix(TrimChars(stem))]) = << >>
    THEN TrimChars(stem)
    ELSE Truncated(TrimChars(stem), SUFFIXES[FirstSuffix(TrimChars(stem))])

\* install::normalize_toc_stem
normalize_toc_stem(stem) ==
    IF TrimChars(stem) = << >> THEN << >>
    ELSE IF StripSuffixes(TrimChars(stem)) = << >> THEN TrimChars(stem)
    ELSE StripSuffixes(TrimChars(stem))

-----------------------------------------------------------------------------
(* install.rs: detect_addons.  An extracted archive is the set of its .toc *)
(* files, each the record of its directory (the folder names from the      *)
(* root of the archive, each a tuple of characters) and of its stem.       *)

Toc(dir, stem) == [dir |-> dir, stem |-> stem]

\* the stems of the .toc files directly in dir: lines 432-450
StemsIn(tree, dir) == {TrimChars(f.stem) : f \in {x \in tree : x.dir = dir}} \ {<< >>}

\* the characters of a lower-case name in the order of their bytes
ByteOrder == <<" ", "+", "-", ".", "0", "1", "2", "3", "4", "5", "6", "7", "8", "9", "_", "a",
    "b", "c", "d", "e", "f", "g", "h", "i", "j", "k", "l", "m", "n", "o", "p", "q", "r", "s",
    "t", "u", "v", "w", "x", "y", "z">>

CharRank(c) == CHOOSE i \in 1..Len(ByteOrder) : ByteOrder[i] = c

\* a < b for strings
CharsLess(a, b) ==
    \E k \in 1..Len(b) :
       /\ k - 1 <= Len(a)
       /\ \A j \in 1..(k - 1) : a[j] = b[j]
       /\ k > Len(a) \/ CharRank(a[k]) < CharRank(b[k])

\* how many of the stems normalize to key
Votes(stems, key) == Cardinality({s \in stems : LowerChars(normalize_toc_stem(s)) = key})

\* lines 482-503: the name most of the stems normalize to, the smallest such on a tie
MostCommon(stems) ==
    CHOOSE key \in {LowerChars(normalize_toc_stem(s)) : s \in stems} :
        \A other \in {LowerChars(normalize_toc_stem(s)) : s \in stems} \ {key} :
            \/ Votes(stems, key) > Votes(stems, other)
            \/ Votes(stems, key) = Votes(stems, other) /\ CharsLess(key, other)

\* lines 457-503 for the stems of dir, dir_name being the last folder of
\* dir (of stems that differ in case only, normalized[0] is the one
\* read_dir yields first)
FolderName(stems, dir_name, is_root) ==
    IF stems = {} THEN None
    ELSE IF /\ ~is_root
            /\ dir_name # << >>
            /\ \E s \in stems : LowerChars(dir_name) \in {LowerChars(s),
                                                          LowerChars(normalize_toc_stem(s))}
    THEN Some(dir_name)
    ELSE IF Cardinality({LowerChars(normalize_toc_stem(s)) : s \in stems}) = 1
    THEN Some(normalize_toc_stem(CHOOSE s \in stems : TRUE))
    ELSE IF is_root THEN None
    ELSE Some(MostCommon(stems))

\* install::addon_folder_name_from_toc
addon_folder_name_from_toc(tree, dir, scan_root) ==
    FolderName(StemsIn(tree, dir), IF dir = << >> THEN << >> ELSE dir[Len(dir)],
               dir = scan_root)

IaDir == <<<<"I", "n", "t", "e", "r", "f", "a", "c", "e">>,
           <<"A", "d", "d", "O", "n", "s">>>>

\* the names addon_folder_name_from_toc gives for the folders of dirs
Candidates(tree, dirs, scan_root) ==
    {Unwrap(addon_folder_name_from_toc(tree, d, scan_root)) :
        d \in {x \in dirs : addon_folder_name_from_toc(tree, x, scan_root) # None}}

\* lines 387-400: the folders directly under Interface/AddOns
UnderAddOns(tree) ==
    {SubSeq(f.dir, 1, Len(IaDir) + 1) :
        f \in {x \in tree : Len(x.dir) > Len(IaDir) /\ SubSeq(x.dir, 1, Len(IaDir)) = IaDir}}

\* install::detect_addons: the folder names of its candidates
detect_addons(tree) ==
    IF Candidates(tree, UnderAddOns(tree), IaDir) # {}
    THEN Candidates(tree, UnderAddOns(tree), IaDir)
    ELSE Candidates(tree, {f.dir : f \in tree}, << >>)

\* the archive of the asset sample-addon.zip
SampleTree ==
    {Toc(<<<<"I", "n", "t", "e", "r", "f", "a", "c", "e">>,
           <<"A", "d", "d", "O", "n", "s">>,
           <<"S", "a", "m", "p", "l", "e">>>>,
         <<"S", "a", "m", "p", "l", "e">>)}

-----------------------------------------------------------------------------
(* install.rs: what an installation writes.  A step is one target written  *)
(* under the WoW directory; rec tells whether it becomes an InstallRecord. *)

Step(path, kind, rec) == [path |-> path, kind |-> kind, rec |-> rec]

DllsTxt == << <<"dlls", ".", "txt">> >>

\* the payload of the model's archives: detect_addons and the DLLs found
ZipAddons(aid) ==
    CASE aid.id = "a1" -> <<"A", "B">>
      [] aid.id = "a2" -> <<"A">>
      [] aid.id = "s1" -> CHOOSE o \in Orders(detect_addons(SampleTree)) : TRUE
      [] OTHER -> << >>

ZipDlls(aid) ==
    CASE aid.id = "a2" -> << <<"b", ".", "dll">> >>
      [] OTHER -> << >>

\* install_from_zip lines 60-88: each DLL is copied, then dlls.txt is updated
DllSteps(dlls) ==
    [i \in 1..Len(dlls) |-> Step(<<dlls[i]>>, "dll", TRUE)]
        \o (IF dlls # << >> THEN <<Step(DllsTxt, "raw", FALSE)>> ELSE << >>)

\* install_from_zip lines 91-109: install_addon_folder for each detected addon
AddonSteps(addons) ==
    [i \in 1..Len(addons) |-> Step(AddonsPath(addons[i]), "addon", TRUE)]

\* mutant: want_addon is false for mode "addon"
install_from_zip_NoAddonMode(mode, aid) ==
    (IF mode \in {"auto", "dll", "mixed"} THEN DllSteps(ZipDlls(aid)) ELSE << >>)
        \o (IF mode \in {"auto", "mixed"} THEN AddonSteps(ZipAddons(aid)) ELSE << >>)

\* install::install_from_zip for mode: want_dll, then want_addon
install_from_zip(mode, aid) ==
    (IF mode \in {"auto", "dll", "mixed"} THEN DllSteps(ZipDlls(aid)) ELSE << >>)
        \o (IF mode \in {"auto", "addon", "mixed"} THEN AddonSteps(ZipAddons(aid)) ELSE << >>)

\* install::install_dll: the file, then dlls.txt
install_dll(name) == <<Step(<<name>>, "dll", TRUE), Step(DllsTxt, "raw", FALSE)>>

\* install::install_raw_file: the file under the destination folder
install_raw_file(dest, name) == <<Step(<<dest, name>>, "raw", TRUE)>>

\* lines 1762-1796: the installer of the asset, raw_dest being the folder
\* the caller chose, if any
InstallSteps(plan, file, raw_dest) ==
    IF looks_like_zip(plan.asset_name)
    THEN [err |-> "", steps |-> install_from_zip(plan.mode, file.aid)]
    ELSE IF EndsWithExt(plan.asset_name, "dll")
    THEN [err |-> "", steps |-> install_dll(plan.asset_name)]
    ELSE IF plan.mode \in {"raw", "auto"}
    THEN IF raw_dest = None THEN [err |-> "raw_dest is required", steps |-> << >>]
         ELSE [err |-> "", steps |-> install_raw_file(Unwrap(raw_dest), plan.asset_name)]
    ELSE [err |-> "Asset is not zip/dll", steps |-> << >>]

\* the InstallRecords of the steps
RecordsOf(steps) == SelectSeq(steps, LAMBDA s : s.rec)

\* the disk after the first k steps wrote their targets from the payload aid
Deploy(dsk, steps, k, aid) ==
    [p \in DOMAIN dsk \cup {steps[i].path : i \in 1..k} |->
        IF \E i \in 1..k : steps[i].path = p
        THEN Content(steps[CHOOSE i \in 1..k : steps[i].path = p].kind, aid, "")
        ELSE dsk[p]]

\* Engine::remove_any_target of each path of S
RemoveAll(dsk, S) == [p \in DOMAIN dsk \ S |-> dsk[p]]

\* Engine::cleanup_stale_addon_installs lines 1269-1286: the disk afterwards
cleanup_stale_addon_installs(inst, dsk, repo_id, records) ==
    RemoveAll(dsk, {e.path : e \in {x \in Db_list_installs(inst, repo_id) :
                                       /\ x.kind = "addon"
                                       /\ \A i \in 1..Len(records) :
                                             ~(records[i].kind = "addon"
                                               /\ records[i].path = x.path)}})

\* the addon folders of the tree of a commit (install::detect_addons_in_tree)
GitAddons(oid) ==
    CASE oid = "c1" -> <<"G">>
      [] oid = "c2" -> <<"G", "A">>
      [] OTHER -> << >>

\* Engine::addon_install_conflicts lines 1330-1353
addon_install_conflicts(inst, dsk, repo_id, names) ==
    {AddonsPath(names[i]) : i \in {j \in 1..Len(names) :
        /\ ~\E e \in Db_list_installs(inst, repo_id) :
              e.kind = "addon" /\ e.path = AddonsPath(names[j])
        /\ AddonsPath(names[j]) \in DOMAIN dsk}}

\* apply_one lines 1672-1682: the addon targets of the project outside its work tree
PreviousAddons(inst, repo_id, worktree) ==
    {e.path : e \in {x \in Db_list_installs(inst, repo_id) :
                        x.kind = "addon" /\ x.path # worktree}}

-----------------------------------------------------------------------------
(* lib.rs: apply_updates, update_repo, reinstall_repo and apply_one.  The  *)
(* call in progress is the record ap: op the operation, replace its        *)
(* opts.replace_addon_conflicts, queue the rows still to go (the first is  *)
(* the one in hand), t the plan build of that row, plan its plan, synced   *)
(* the head sync_repo returned, recs the InstallRecords, todo those still  *)
(* to be added to the manifest, plans the plans pushed so far, pc where    *)
(* the call stands.  disk0, inst0, row0 and sound are what apply_one found *)
(* when it was called; lastok and err are how its last run ended.          *)

OnePcs == {"one", "download", "verify", "install", "cleanup", "clear", "add", "state",
           "gitdeploy"}

ApplyEnded == ap.pc \in {"idle", "ok", "failed"}

\* last_version and the installed asset identity of a row
InstalledState(r) ==
    <<r.last_version, r.installed_asset_id, r.installed_asset_name,
      r.installed_asset_size, r.installed_asset_url>>

\* every manifest path of the project is on disk and holds the asset the
\* row records as installed
Corresponds(rows, inst, dsk, id) ==
    \A e \in Db_list_installs(inst, id) :
        /\ e.path \in DOMAIN dsk
        /\ Row2(rows, id).installed_asset_id = Some(dsk[e.path].aid)

\* no file of the asset aid is on disk unless the row records aid as installed
NoNewFiles(rows, dsk, id, aid) ==
    Row2(rows, id).installed_asset_id # Some(aid) => \A p \in DOMAIN dsk : dsk[p].aid # aid

\* the store describes what is on disk, for a project about to install aid
Sound(rows, inst, dsk, id, aid) ==
    Corresponds(rows, inst, dsk, id) /\ NoNewFiles(rows, dsk, id, aid)

\* a request handed to the HTTP client or to git, with the plan it serves
Request(kind, url, plan) ==
    [kind |-> kind, url |-> url, forge |-> plan.forge, host |-> plan.host]

\* what no action of an apply call touches
ApplyFrame == UNCHANGED <<nextId, clones, last, token, now, forge, pass, task, pureVars>>

\* reinstall_repo lines 1837-1861: the plan of the picked asset
ReinstallPlan(r, rel, asset) ==
    [blank_plan(r) EXCEPT
       !.latest = effective_latest_label(rel.tag, asset.name),
       !.asset_id = effective_asset_id(asset),
       !.asset_name = asset.name,
       !.asset_url = asset.download_url,
       !.asset_size = asset.size,
       !.asset_sha256 = asset.sha256]

\* line 1839: pick_asset(..)?
ReinstallPicked(st, rel, picked) ==
    IF ~picked.ok THEN Fail(st, "pick")
    ELSE Finish(st, ReinstallPlan(st.t.r, rel, picked.asset))

\* lines 1833-1839 on Ok((etag, rel_opt, _)): update_etag's own error is dropped
ReinstallRelease(st, res) ==
    IF res.rel = None THEN Fail(st, "No releases found")
    ELSE ReinstallPicked([st EXCEPT !.repos = IF res.new_etag # None
                                               THEN Db_update(@, st.t.r.id, "etag", res.new_etag)
                                               ELSE @],
                         Unwrap(res.rel),
                         pick_asset(Unwrap(res.rel), st.t.r.mode, st.t.r.asset_regex))

\* lines 1830-1831: latest_release(..).await?
ReinstallOutcome(st, res) ==
    IF ~res.ok THEN Fail(st, "forge") ELSE ReinstallRelease(st, res)

\* forge::latest_release(det, None) on what cache_read returned
ReinstallOnCache(st, det, cr) ==
    IF ~cr.hit THEN [st EXCEPT !.relcache = cr.cache, !.t.pc = "fetch", !.t.calls = @ + 1]
    ELSE ReinstallOutcome([st EXCEPT !.relcache = cr.cache], cr.res)

\* line 1827: detect_repo(&r.url)?
ReinstallDetected(st, det, tnow) ==
    IF ~det.ok THEN Fail(st, "detect")
    ELSE ReinstallOnCache(st, det, cache_read(st.relcache, det, None, tnow))

\* reinstall_repo lines 1815-1831, up to its first suspension
StartReinstall(st, inst, dsk, tnow) ==
    IF st.t.r.mode = "addon_git" THEN StartGit(st, inst, dsk, TRUE)
    ELSE ReinstallDetected(st, detect_repo(st.t.r.url), tnow)

ReinstallServed(st, det, res, tnow) ==
    ReinstallOutcome([st EXCEPT !.relcache = AfterServer(@, det, res, tnow),
                                !.t.res = res.err],
                     res)

ReinstallAnswered(st, frg, tnow, fault, det) ==
    ReinstallServed(st, det, ServerResult(frg, det, None, fault), tnow)

\* reinstall_repo resumes with the forge's answer
ResumeReinstall(st, frg, tnow, fault) ==
    ReinstallAnswered(st, frg, tnow, fault, detect_repo(st.t.r.url))

\* apply_one returned, err being "" for Ok: apply_updates lines 1581-1590
\* records it in the plan and goes on, update_repo and reinstall_repo
\* return it
EndOne(a, err) ==
    IF a.op = "apply_updates"
    THEN [a EXCEPT !.pc = "next", !.queue = Tail(@), !.lastok = (err = ""), !.err = err,
                   !.plans = Append(@, IF err = "" THEN [a.plan EXCEPT !.applied = TRUE]
                                       ELSE [a.plan EXCEPT
                                               !.error = Some(PlainMsg("Install failed"))])]
    ELSE [a EXCEPT !.pc = IF err = "" THEN "ok" ELSE "failed",
                   !.lastok = (err = ""), !.err = err,
                   !.cause = IF err = "" THEN "" ELSE "apply",
                   !.plans = IF err = "" THEN <<[a.plan EXCEPT !.applied = TRUE]>> ELSE << >>]

\* apply_one is called with plan
EnterOne(a, plan) ==
    [a EXCEPT !.pc = "one", !.plan = plan, !.recs = << >>, !.todo = << >>,
              !.synced = None, !.known = FALSE, !.lastok = FALSE, !.err = "",
              !.disk0 = disk,
              !.inst0 = Db_list_installs(installs, plan.repo_id),
              !.row0 = InstalledState(Row(plan.repo_id)),
              !.sound = Sound(repos, installs, disk, plan.repo_id, plan.asset_id)]

\* the caller has the plan of the row in hand: apply_updates lines 1577-1592,
\* update_repo lines 1604-1616, reinstall_repo lines 1817-1823 and 1863
Decide(a, t, plan) ==
    IF t.pc = "err" THEN [a EXCEPT !.pc = "failed", !.cause = t.cause]
    ELSE IF a.op = "apply_updates"
    THEN IF t.r.enabled /\ plan.asset_url # EmptyUrl THEN EnterOne(a, plan)
         ELSE [a EXCEPT !.pc = "next", !.queue = Tail(@), !.plans = Append(@, plan)]
    ELSE IF a.op = "update_repo"
    THEN IF plan.error # None THEN [a EXCEPT !.pc = "failed", !.cause = "plan"]
         ELSE IF plan.asset_url = EmptyUrl THEN [a EXCEPT !.pc = "ok"]
         ELSE EnterOne(a, plan)
    ELSE IF t.r.mode # "addon_git" THEN EnterOne(a, plan)
    ELSE IF plan.error # None THEN [a EXCEPT !.pc = "failed", !.cause = "plan"]
    ELSE EnterOne(a, [plan EXCEPT !.asset_url = t.r.url])

\* Engine::apply_updates line 1573: list_repos()?
ApplyUpdates(replace, dbfail) ==
    /\ ApplyEnded
    /\ pass.status # "running"
    /\ ap' = IF dbfail = "list_repos"
             THEN [NoApply EXCEPT !.pc = "failed", !.op = "apply_updates", !.cause = "store"]
             ELSE [NoApply EXCEPT !.pc = "next", !.op = "apply_updates",
                                  !.replace = replace, !.queue = SortRows(repos)]
    /\ net' = {}
    /\ UNCHANGED <<repos, installs, rate_limits, disk, dlcache, relcache>>
    /\ ApplyFrame

\* Engine::update_repo line 1603: get_repo(repo_id)?
UpdateRepoTo(id, raw_dest, replace, dbfail) ==
    /\ ApplyEnded
    /\ pass.status # "running"
    /\ ap' = IF ~Tracked(id) \/ dbfail = "get_repo"
             THEN [NoApply EXCEPT !.pc = "failed", !.op = "update_repo", !.cause = "store"]
             ELSE [NoApply EXCEPT !.pc = "next", !.op = "update_repo", !.raw_dest = raw_dest,
                                  !.replace = replace, !.queue = <<Row(id)>>]
    /\ net' = {}
    /\ UNCHANGED <<repos, installs, rate_limits, disk, dlcache, relcache>>
    /\ ApplyFrame

\* update_repo as the GUI calls it, without a raw destination
UpdateRepo(id, replace, dbfail) == UpdateRepoTo(id, None, replace, dbfail)

\* Engine::reinstall_repo line 1815: get_repo(repo_id)?
ReinstallRepo(id, replace, dbfail) ==
    /\ ApplyEnded
    /\ pass.status # "running"
    /\ ap' = IF ~Tracked(id) \/ dbfail = "get_repo"
             THEN [NoApply EXCEPT !.pc = "failed", !.op = "reinstall_repo", !.cause = "store"]
             ELSE [NoApply EXCEPT !.pc = "next", !.op = "reinstall_repo",
                                  !.replace = replace, !.queue = <<Row(id)>>]
    /\ net' = {}
    /\ UNCHANGED <<repos, installs, rate_limits, disk, dlcache, relcache>>
    /\ ApplyFrame

\* the plan build of the row in hand has run to out
Built(out) ==
    /\ repos' = out.repos
    /\ rate_limits' = out.rate_limits
    /\ relcache' = out.relcache
    /\ ap' = [ap EXCEPT !.pc = "build", !.t = out.t]

\* the loop of apply_updates takes its next row, or returns its plans; the
\* plan build runs to its first suspension or to its result
NextRepo(dbfail) ==
    /\ ap.pc = "next"
    /\ IF ap.queue = << >>
       THEN /\ ap' = [ap EXCEPT !.pc = "ok"]
            /\ UNCHANGED <<repos, rate_limits, relcache>>
       ELSE Built(IF ap.op = "reinstall_repo"
                  THEN StartReinstall(BuildState(repos, rate_limits, relcache,
                                                 NewBuild(ap.queue[1])),
                                      installs, disk, now)
                  ELSE FirstRun(BuildState(repos, rate_limits, relcache,
                                           NewBuild(ap.queue[1])),
                                TRUE, dbfail))
    /\ UNCHANGED <<installs, disk, dlcache, net>>
    /\ ApplyFrame

\* the plan build resumes with the forge's answer
BuildFetched(fault) ==
    /\ ap.pc = "build"
    /\ ap.t.pc = "fetch"
    /\ Built(IF ap.op = "reinstall_repo"
             THEN ResumeReinstall(BuildState(repos, rate_limits, relcache, ap.t),
                                  forge, now, fault)
             ELSE ResumeRelease(BuildState(repos, rate_limits, relcache, ap.t),
                                forge, now, fault))
    /\ UNCHANGED <<installs, disk, dlcache, net>>
    /\ ApplyFrame

\* the git-mode plan build resumes with the remote head
BuildGitAnswered(remote, dbfail) ==
    /\ ap.pc = "build"
    /\ ap.t.pc = "git"
    /\ ap' = [ap EXCEPT !.t = ResumeGit(BuildState(repos, rate_limits, relcache, ap.t),
                                        installs, disk, remote, dbfail).t]
    /\ UNCHANGED <<repos, installs, rate_limits, disk, dlcache, relcache, net>>
    /\ ApplyFrame

\* the caller looks at the plan it got
PlanReady ==
    /\ ap.pc = "build"
    /\ ap.t.pc \in {"done", "err"}
    /\ ap' = Decide(ap, ap.t, ap.t.plan)
    /\ UNCHANGED <<repos, installs, rate_limits, disk, dlcache, relcache, net>>
    /\ ApplyFrame

\* apply_one lines 1728-1740: the checks before the cache is looked at
PreflightErr(plan, iofail) ==
    IF plan.asset_url = EmptyUrl THEN "No downloadable asset in update plan"
    ELSE IF iofail THEN "cache dir"
    ELSE validate_asset_url(plan)

\* apply_one lines 1728-1753 and download_asset_to lines 1226-1233, for a
\* release asset: up to the request being sent, or to the file being
\* taken from the cache
OneRelease(iofail) ==
    /\ ap.pc = "one"
    /\ ap.plan.mode # "addon_git"
    /\ IF PreflightErr(ap.plan, iofail) # ""
       THEN /\ ap' = EndOne(ap, PreflightErr(ap.plan, iofail))
            /\ net' = net
       ELSE IF ~should_download(dlcache, asset_path(ap.plan), ap.plan)
       THEN /\ ap' = [ap EXCEPT !.pc = "verify"]
            /\ net' = net
       ELSE IF validate_asset_url(ap.plan) # ""
       THEN /\ ap' = EndOne(ap, validate_asset_url(ap.plan))
            /\ net' = net
       ELSE /\ ap' = [ap EXCEPT !.pc = "download"]
            /\ net' = net \cup {Request("asset", ap.plan.asset_url, ap.plan)}
    /\ UNCHANGED <<repos, installs, rate_limits, disk, dlcache, relcache>>
    /\ ApplyFrame

\* the signature a file of this name starts with
GoodHead(name) ==
    IF EndsWithExt(name, "zip") THEN "PK" ELSE IF EndsWithExt(name, "dll") THEN "MZ" ELSE "??"

\* what the server of the asset answers: nothing, the asset, or a body that
\* is too long, has lost its signature, or is not the published content
Response(plan, kind) ==
    CASE kind = "good" -> Some(File(1, GoodHead(plan.asset_name), "d1", plan.asset_id))
      [] kind = "long" -> Some(File(2, GoodHead(plan.asset_name), "d1", plan.asset_id))
      [] kind = "nosig" -> Some(File(1, "??", "d1", plan.asset_id))
      [] kind = "other" -> Some(File(1, GoodHead(plan.asset_name), "d2", plan.asset_id))
      [] OTHER -> None

\* download_asset_to lines 1233-1241: the response is written to the cache path
Stored(a, resp) ==
    IF resp = None
    THEN /\ ap' = EndOne(a, "download failed")
         /\ dlcache' = dlcache
    ELSE /\ ap' = [a EXCEPT !.pc = "verify"]
         /\ dlcache' = Put(dlcache, asset_path(a.plan), Unwrap(resp))

\* the request of download_asset_to is answered
Downloaded(kind) ==
    /\ ap.pc = "download"
    /\ Stored(ap, Response(ap.plan, kind))
    /\ UNCHANGED <<repos, installs, rate_limits, disk, relcache, net>>
    /\ ApplyFrame

Verified(a, err) == IF err # "" THEN EndOne(a, err) ELSE [a EXCEPT !.pc = "install"]

\* apply_one lines 1754-1755
Verify ==
    /\ ap.pc = "verify"
    /\ ap' = Verified(ap, IntegrityErr(dlcache, asset_path(ap.plan), ap.plan))
    /\ UNCHANGED <<repos, installs, rate_limits, disk, dlcache, relcache, net>>
    /\ ApplyFrame

\* the installer ran: it wrote the first k of its targets
Installed(a, ins, k, aid) ==
    IF ins.err # ""
    THEN /\ k = 0
         /\ disk' = disk
         /\ ap' = EndOne(a, ins.err)
    ELSE /\ disk' = Deploy(disk, ins.steps, k, aid)
         /\ ap' = IF k < Len(ins.steps) THEN EndOne(a, "install failed")
                  ELSE [a EXCEPT !.pc = "cleanup", !.recs = RecordsOf(ins.steps),
                                 !.known = TRUE]

\* apply_one lines 1762-1796: the installer writes its targets one after
\* another and may fail at any of them
Install(k) ==
    /\ ap.pc = "install"
    /\ k <= Len(InstallSteps(ap.plan, dlcache[asset_path(ap.plan)], ap.raw_dest).steps)
    /\ Installed(ap, InstallSteps(ap.plan, dlcache[asset_path(ap.plan)], ap.raw_dest), k,
                 dlcache[asset_path(ap.plan)].aid)
    /\ UNCHANGED <<repos, installs, rate_limits, dlcache, relcache, net>>
    /\ ApplyFrame

\* line 1284, let _ = Self::remove_any_target(&full): a target that cannot
\* be removed (the paths of failing) stays, and the cleanup goes on
CleanedExcept(dsk, cleaned, failing) ==
    [p \in DOMAIN cleaned \cup (failing \cap DOMAIN dsk) |-> dsk[p]]

\* apply_one line 1800, failing being the targets whose removal fails
CleanupFailing(dbfail, failing) ==
    /\ ap.pc = "cleanup"
    /\ IF dbfail = "list_installs"
       THEN /\ ap' = EndOne(ap, "store")
            /\ disk' = disk
       ELSE /\ ap' = [ap EXCEPT !.pc = "clear"]
            /\ disk' = CleanedExcept(disk,
                                     cleanup_stale_addon_installs(installs, disk,
                                                                  ap.plan.repo_id, ap.recs),
                                     failing)
    /\ UNCHANGED <<repos, installs, rate_limits, dlcache, relcache, net>>
    /\ ApplyFrame

\* apply_one line 1800 on a disk that lets every target go
Cleanup(dbfail) == CleanupFailing(dbfail, {})

\* Engine::persist_installs line 1255: clear_installs(repo_id)?
PersistClear(dbfail) ==
    /\ ap.pc = "clear"
    /\ IF dbfail = "clear_installs"
       THEN /\ ap' = EndOne(ap, "store")
            /\ installs' = installs
       ELSE /\ ap' = [ap EXCEPT !.pc = IF ap.recs = << >> THEN "state" ELSE "add",
                                !.todo = ap.recs]
            /\ installs' = Db_clear_installs(installs, ap.plan.repo_id)
    /\ UNCHANGED <<repos, rate_limits, disk, dlcache, relcache, net>>
    /\ ApplyFrame

\* Engine::persist_installs lines 1256-1259: add_install(..)? of the next record
PersistAdd(dbfail) ==
    /\ ap.pc = "add"
    /\ IF dbfail = "add_install"
       THEN /\ ap' = EndOne(ap, "store")
            /\ installs' = installs
       ELSE /\ ap' = [ap EXCEPT !.pc = IF Tail(ap.todo) = << >> THEN "state" ELSE "add",
                                !.todo = Tail(ap.todo)]
            /\ installs' = Db_add_install(installs, ap.plan.repo_id,
                                          ap.todo[1].path, ap.todo[1].kind)
    /\ UNCHANGED <<repos, rate_limits, disk, dlcache, relcache, net>>
    /\ ApplyFrame

\* the arguments of set_installed_asset_state: lines 1718-1725 for a git
\* sync, lines 1802-1809 for a release asset
StateWritten(rows, a) ==
    IF a.plan.mode = "addon_git"
    THEN Db_set_installed_asset_state(rows, a.plan.repo_id,
             Some(Unwrap(a.synced).short_oid),
             Some(AssetId(Unwrap(a.synced).oid, EmptyUrl)),
             Some(<<"git:", Unwrap(a.synced).branch>>), None, Some(a.plan.url))
    ELSE Db_set_installed_asset_state(rows, a.plan.repo_id,
             Some(a.plan.latest), Some(a.plan.asset_id), Some(a.plan.asset_name),
             a.plan.asset_size, Some(a.plan.asset_url))

\* mutant: the installed state is written although the call fails
SetState_WrittenOnFailure(dbfail) ==
    /\ ap.pc = "state"
    /\ IF dbfail = "set_installed_asset_state"
       THEN /\ ap' = EndOne(ap, "store")
            /\ repos' = StateWritten(repos, ap)
       ELSE /\ ap' = EndOne(ap, "")
            /\ repos' = StateWritten(repos, ap)
    /\ UNCHANGED <<installs, rate_limits, disk, dlcache, relcache, net>>
    /\ ApplyFrame

\* apply_one lines 1718-1726 and 1802-1810
SetState(dbfail) ==
    /\ ap.pc = "state"
    /\ IF dbfail = "set_installed_asset_state"
       THEN /\ ap' = EndOne(ap, "store")
            /\ repos' = repos
       ELSE /\ ap' = EndOne(ap, "")
            /\ repos' = StateWritten(repos, ap)
    /\ UNCHANGED <<installs, rate_limits, disk, dlcache, relcache, net>>
    /\ ApplyFrame

\* git_sync::sync_repo on the remote head it found: the work tree is cloned
\* or moved to that head; a path that is no work tree is an error
Synced(a, worktree, head) ==
    IF worktree \in DOMAIN disk /\ disk[worktree].kind # "git"
    THEN /\ ap' = EndOne(a, "git sync")
         /\ disk' = disk
    ELSE /\ ap' = [a EXCEPT !.pc = "gitdeploy", !.synced = Some(head)]
         /\ disk' = Put(disk, worktree, Content("git", AssetId(head.oid, EmptyUrl), head.branch))

\* apply_one lines 1628-1638 for a git-synced project; remote is the head
\* of the remote, None when it cannot be reached
GitSync(remote, dbfail) ==
    /\ ap.pc = "one"
    /\ ap.plan.mode = "addon_git"
    /\ IF dbfail = "get_repo" \/ ~Tracked(ap.plan.repo_id)
       THEN /\ ap' = EndOne(ap, "store")
            /\ disk' = disk
            /\ net' = net
       ELSE /\ net' = net \cup {Request("git", ap.plan.url, ap.plan)}
            /\ IF remote = None
               THEN /\ ap' = EndOne(ap, "git sync")
                    /\ disk' = disk
               ELSE Synced(ap, addon_git_worktree_dir(installs, disk, Row(ap.plan.repo_id)),
                           Unwrap(remote))
    /\ UNCHANGED <<repos, installs, rate_limits, dlcache, relcache>>
    /\ ApplyFrame

\* apply_one lines 1683-1716: the first k addon folders are deployed
GitDeployed(a, worktree, names, k, oid) ==
    /\ disk' = Deploy(RemoveAll(RemoveAll(disk,
                                          addon_install_conflicts(installs, disk,
                                                                  a.plan.repo_id, names)),
                                PreviousAddons(installs, a.plan.repo_id, worktree)),
                      AddonSteps(names), k, AssetId(oid, EmptyUrl))
    /\ ap' = IF k < Len(names) THEN EndOne(a, "install failed")
             ELSE [a EXCEPT !.pc = "clear", !.known = TRUE,
                            !.recs = <<Step(worktree, "raw", TRUE)>> \o AddonSteps(names)]

\* apply_one lines 1641-1682: detection, conflicts, the previous addon dirs
GitChecked(a, worktree, names, k, dbfail) ==
    IF names = << >> \/ dbfail = "list_installs"
       \/ (addon_install_conflicts(installs, disk, a.plan.repo_id, names) # {}
           /\ ~a.replace)
    THEN /\ k = 0
         /\ disk' = disk
         /\ ap' = EndOne(a, IF names = << >> THEN "No addon .toc files found"
                            ELSE IF dbfail = "list_installs" THEN "store"
                            ELSE "ADDON_CONFLICT")
    ELSE GitDeployed(a, worktree, names, k, Unwrap(a.synced).oid)

\* apply_one lines 1641-1716 for a git-synced project
GitDeploy(k, dbfail) ==
    /\ ap.pc = "gitdeploy"
    /\ k <= Len(GitAddons(Unwrap(ap.synced).oid))
    /\ GitChecked(ap, addon_git_worktree_dir(installs, disk, Row(ap.plan.repo_id)),
                  GitAddons(Unwrap(ap.synced).oid), k, dbfail)
    /\ UNCHANGED <<repos, installs, rate_limits, dlcache, relcache, net>>
    /\ ApplyFrame

\* the call has returned and its caller has dropped what it returned
Return ==
    /\ ap.pc \in {"ok", "failed"}
    /\ ap' = NoApply
    /\ net' = {}
    /\ UNCHANGED <<repos, installs, rate_limits, disk, dlcache, relcache>>
    /\ ApplyFrame

\* the forge of a project publishes another release
Publish(w) ==
    /\ ap.pc = "idle"
    /\ forge # w
    /\ forge' = w
    /\ UNCHANGED <<storeVars, clones, last, token, now, disk, dlcache, runVars, pureVars>>

\* the user deletes an installed target
UserDeletes(path) ==
    /\ ap.pc = "idle"
    /\ path \in DOMAIN disk
    /\ disk' = RemoveAll(disk, {path})
    /\ UNCHANGED <<storeVars, clones, last, token, now, forge, dlcache, runVars, pureVars>>

-----------------------------------------------------------------------------
(* The apply specification: apply_updates, update_repo and reinstall_repo  *)
(* called one after another on a store of a release-mode and a git-synced  *)
(* project, while the forge publishes releases, downloads and store        *)
(* statements fail, and the user deletes installed targets.                *)

MaxSteps == 3

\* the stores of the model: a release-mode project, or a git-synced one
ApplyStores ==
    {<< <<MkUrl("https", GithubCom, <<"o", "n">>), "auto">> >>,
     << <<MkUrl("https", CodebergOrg, <<"g", "n">>), "addon_git">> >>,
     << <<MkUrl("https", GithubCom, <<"s", "n">>), "addon">> >>}

\* the forge of project s/n: one release whose only asset is sample-addon.zip
SampleForge ==
    (<<GithubCom, <<"s", "n">>>> :>
        Some([tag |-> "v1", etag |-> Some("e1"),
              assets |-> <<Asset(Some("s1"), <<"sample-addon", ".", "zip">>,
                                 DownloadUrl(GithubCom, "sample-addon.zip"), Some(1), None)>>]))

\* the forge of project o/n publishing one release with one asset
Published(tag, etag, asset) ==
    (<<GithubCom, <<"o", "n">>>> :>
        Some([tag |-> tag, etag |-> Some(etag), assets |-> <<asset>>]))

\* the releases of o/n: v1 on the forge host with a digest, then v2 on a
\* GitHub asset host, or a DLL on a subdomain of the forge host, on a
\* foreign host, or on the forge host without TLS
ApplyWorlds ==
    <<Published("v1", "e1", Asset(Some("a1"), <<"a", ".", "zip">>,
                                  DownloadUrl(GithubCom, "a.zip"), Some(1), Some("d1"))),
      Published("v2", "e2", Asset(Some("a2"), <<"a", ".", "zip">>,
                                  DownloadUrl(<<"objects", "githubusercontent", "com">>, "a.zip"),
                                  Some(1), None)),
      Published("v2", "e3", Asset(Some("a3"), <<"b", ".", "dll">>,
                                  DownloadUrl(<<"dl", "github", "com">>, "b.dll"),
                                  None, None)),
      Published("v2", "e4", Asset(Some("a4"), <<"b", ".", "dll">>,
                                  DownloadUrl(<<"evil", "example">>, "b.dll"), Some(1), None)),
      Published("v2", "e5", Asset(None, <<"b", ".", "dll">>,
                                  MkUrl("http", GithubCom, <<"o", "n", "b.dll">>),
                                  Some(1), None))>>

ApplyTimes == {50}

ResponseKinds == {"fail", "good", "long", "nosig", "other"}

Remotes == {None, Some(GitHead("c1", "master")), Some(GitHead("c2", "master"))}

\* InstallOptions.replace_addon_conflicts as the caller passes it; apply_one
\* reads it for a git-synced project only (line 1664)
Overwrites == {b \in BOOLEAN : ~b \/ \E r \in repos : r.mode = "addon_git"}

InitApply ==
    /\ \E adds \in ApplyStores :
          /\ repos = BuildRows(adds, {})
          /\ nextId = Cardinality(BuildRows(adds, {})) + 1
          /\ forge = IF adds[1][2] = "addon" THEN SampleForge ELSE ApplyWorlds[1]
    /\ installs = {}
    /\ rate_limits = {}
    /\ token = FALSE
    /\ now = 0
    /\ clones = {}
    /\ last = InitLast
    /\ disk = << >>
    /\ dlcache = << >>
    /\ IdleRun
    /\ NoPure

NextApply ==
    \/ \E f \in {"", "list_repos"} : ApplyUpdates(FALSE, f)
    \/ \E id \in Ids, rep \in Overwrites, f \in {"", "get_repo"} : UpdateRepo(id, rep, f)
    \/ \E id \in Ids, f \in {"", "get_repo"} : ReinstallRepo(id, FALSE, f)
    \/ Return
    \/ \E f \in {"", "list_installs"} : NextRepo(f)
    \/ \E fault \in {PlainMsg("none"), PlainMsg("request_failed")} : BuildFetched(fault)
    \/ \E remote \in Remotes, f \in {"", "list_installs"} : BuildGitAnswered(remote, f)
    \/ PlanReady
    \/ \E iofail \in BOOLEAN : OneRelease(iofail)
    \/ \E kind \in ResponseKinds : Downloaded(kind)
    \/ Verify
    \/ \E k \in 0..MaxSteps : Install(k)
    \/ \E f \in {"", "list_installs"} : Cleanup(f)
    \/ \E f \in {"", "clear_installs"} : PersistClear(f)
    \/ \E f \in {"", "add_install"} : PersistAdd(f)
    \/ \E f \in {"", "set_installed_asset_state"} : SetState(f)
    \/ \E remote \in Remotes, f \in {"", "get_repo"} : GitSync(remote, f)
    \/ \E k \in 0..MaxSteps, f \in {"", "list_installs"} : GitDeploy(k, f)
    \/ \E i \in 2..Len(ApplyWorlds) : forge = ApplyWorlds[1] /\ Publish(ApplyWorlds[i])
    \/ \E e \in installs : UserDeletes(e.path)
    \/ \E t \in ApplyTimes : ap.pc = "idle" /\ Tick(t)
    \/ \E id \in Ids, b \in BOOLEAN : ap.pc = "idle" /\ SetRepoEnabled(id, b)

SpecApply == InitApply /\ [][NextApply]_vars

\* the manifest rows persist_installs writes for the records
ManifestOf(id, recs) ==
    {[repo_id |-> id, path |-> recs[i].path, kind |-> recs[i].kind] : i \in 1..Len(recs)}

\* C2: replacing a project's manifest is atomic: from the moment apply_one
\* has the records of the new installation, in every state (one a
\* concurrent reader of the store sees, or one a failed statement leaves
\* behind) the manifest of the project is the complete previous set of
\* entries or the complete new set.
C2_AtomicManifest ==
    ap.known =>
        Db_list_installs(installs, ap.plan.repo_id)
            \in {ap.inst0, ManifestOf(ap.plan.repo_id, ap.recs)}

\* apply_one returns an error
FailedOne == ap.pc \in OnePcs /\ ap'.pc \notin OnePcs /\ ~ap'.lastok

\* the asset or commit apply_one was installing
NewAid(a) ==
    IF a.synced # None THEN AssetId(Unwrap(a.synced).oid, EmptyUrl) ELSE a.plan.asset_id

C3_Step ==
    (FailedOne /\ ap.sound) =>
        Sound(repos', installs', disk', ap.plan.repo_id, NewAid(ap))

\* C3: when an apply_one that found the store describing the disk fails at
\* any of its steps, the store still describes the disk afterwards: every
\* manifest path holds the asset recorded as installed, and no file of the
\* new asset is on disk while the store records another asset.
C3_FailedApplyKeepsCorrespondence == [][C3_Step]_vars

\* the file fails one of the integrity conditions of the plan
BadFile(f, plan) ==
    \/ plan.asset_size # None /\ f.len # Unwrap(plan.asset_size)
    \/ NameExt(plan.asset_name) = Some("zip") /\ f.head # "PK"
    \/ NameExt(plan.asset_name) = Some("dll") /\ f.head # "MZ"
    \/ plan.asset_sha256 # None /\ f.sha # Unwrap(plan.asset_sha256)

C8_Step ==
    (/\ ap.pc = "verify"
     /\ ap'.pc # "verify"
     /\ BadFile(dlcache[asset_path(ap.plan)], ap.plan)) =>
        /\ ap'.pc \notin OnePcs
        /\ ~ap'.lastok
        /\ disk' = ap.disk0
        /\ Db_list_installs(installs', ap.plan.repo_id) = ap.inst0
        /\ InstalledState(Row2(repos', ap.plan.repo_id)) = ap.row0

\* C8: when the file apply_one is about to install (just downloaded or
\* taken from the download cache) has a length other than the known size,
\* lacks the zip signature under a .zip name or the MZ signature under a
\* .dll name, or has a digest other than the supplied one, apply_one fails,
\* the disk under the WoW directory is what it was when apply_one was
\* called, and so are the manifest, last_version and the installed asset
\* identity of the project.
C8_IntegrityFailureBlocksInstall == [][C8_Step]_vars

\* witness: an installed project whose new asset, taken from the download
\* cache without a request, failed the signature check
C8_Witness ==
    /\ ap.err = "Downloaded ZIP asset failed signature check"
    /\ ap.inst0 # {}
    /\ net = {}

\* url is https and its host is h or a subdomain of h, for h the plan's own
\* host or, for the GitHub dialect, one of the four GitHub asset hosts
TrustedUrl(url, forge_str, host) ==
    /\ url.scheme = "https"
    /\ \E h \in {host} \cup
                (IF Lower(forge_str) = "github"
                 THEN {<<"github", "com">>, <<"objects", "githubusercontent", "com">>,
                       <<"release-assets", "githubusercontent", "com">>,
                       <<"codeload", "github", "com">>}
                 ELSE {}) :
          \E k \in 0..Len(url.host) :
             LowerSeq(SubSeq(url.host, k + 1, Len(url.host))) = LowerSeq(h)

C9_Step ==
    /\ \A q \in net' \ net : q.kind = "asset" => TrustedUrl(q.url, q.forge, q.host)
    /\ (/\ ap.pc = "one"
        /\ ap'.pc # "one"
        /\ ap.plan.mode # "addon_git"
        /\ ~TrustedUrl(ap.plan.asset_url, ap.plan.forge, ap.plan.host)) =>
           /\ net' = net
           /\ ap'.pc \notin OnePcs
           /\ ~ap'.lastok
           /\ disk' = disk
           /\ installs' = installs
           /\ repos' = repos

\* C9: every asset download request apply_one hands to the HTTP client (for
\* an update, a repair replay of the stored URL, a forced reinstall) is for
\* an https URL whose host is the project's forge host, a subdomain of it,
\* or, for the GitHub dialect, one of the four GitHub asset hosts or a
\* subdomain; for any other asset URL apply_one fails without a request and
\* without writing to the disk or the store.
C9_HostTrust == [][C9_Step]_vars

\* witness: the forced reinstall of an installed project was refused for
\* the host of its asset URL
C9_Witness ==
    /\ ap.op = "reinstall_repo"
    /\ ap.err = "Blocked asset host"
    /\ ap.inst0 # {}

\* the addon targets of the commit in hand that hold content the project's
\* manifest does not list as an addon
Conflicting(a) ==
    addon_install_conflicts(installs, disk, a.plan.repo_id, GitAddons(Unwrap(a.synced).oid))

C11_Step ==
    /\ (/\ ap.pc = "gitdeploy"
        /\ ap'.pc # "gitdeploy"
        /\ Conflicting(ap) # {}
        /\ ~ap.replace
        /\ ap'.err # "store") =>
           /\ ap'.pc \notin OnePcs
           /\ ap'.err = "ADDON_CONFLICT"
           /\ disk' = ap.disk0
           /\ Db_list_installs(installs', ap.plan.repo_id) = ap.inst0
           /\ InstalledState(Row2(repos', ap.plan.repo_id)) = ap.row0
    /\ (/\ ap.pc = "gitdeploy"
        /\ ap'.pc # "gitdeploy"
        /\ Conflicting(ap) # {}
        /\ ap.replace
        /\ ap'.err # "store") =>
           /\ ap'.err # "ADDON_CONFLICT"
           /\ \A p \in Conflicting(ap) :
                 p \in DOMAIN disk' =>
                    disk'[p] = Content("addon", AssetId(Unwrap(ap.synced).oid, EmptyUrl), "")

\* C11: when apply_one of a git-synced project finds an addon target that
\* holds content and is no addon entry of the project's manifest, then
\* without the overwrite flag it fails with the ADDON_CONFLICT error and
\* the disk, the manifest and the installed state are what they were when
\* it was called; with the flag it goes on, and what was at each
\* conflicting path is gone before the addon is deployed there.
C11_ConflictDetection == [][C11_Step]_vars

\* the part of C11 the code keeps: the refusal touches nothing but the
\* hidden work tree sync_repo has already moved, and the store not at all
C11_RefusalStep ==
    (/\ ap.pc = "gitdeploy"
     /\ ap'.pc # "gitdeploy"
     /\ Conflicting(ap) # {}
     /\ ~ap.replace
     /\ ap'.err # "store") =>
        /\ ap'.err = "ADDON_CONFLICT"
        /\ disk' = disk
        /\ \A p \in (DOMAIN disk \cup DOMAIN ap.disk0) \
                    {addon_git_worktree_dir(installs, disk, Row(ap.plan.repo_id))} :
              /\ p \in DOMAIN disk /\ p \in DOMAIN ap.disk0
              /\ disk[p] = ap.disk0[p]
        /\ installs' = installs
        /\ repos' = repos

C11_RefusalLeavesTargets == [][C11_RefusalStep]_vars

\* a refused deployment, and one that went on over a conflict
C11_Refused == ap.err = "ADDON_CONFLICT" /\ ap.pc = "failed"

C11_Replaced ==
    /\ ap.replace
    /\ ap.pc = "clear"
    /\ \E p \in DOMAIN ap.disk0 :
          /\ ap.disk0[p].kind = "addon"
          /\ p \in DOMAIN disk
          /\ disk[p] # ap.disk0[p]
          /\ \A e \in ap.inst0 : e.path # p

\* what a successful apply_one of the release plan leaves in the row
PlanState(plan) ==
    <<Some(plan.latest), Some(plan.asset_id), Some(plan.asset_name), plan.asset_size,
      Some(plan.asset_url)>>

\* the file of the plan's asset is in the download cache with the expected
\* size and digest, where the plan has them
CacheMatches(cache, plan) ==
    /\ asset_path(plan) \in DOMAIN cache
    /\ plan.asset_size # None => cache[asset_path(plan)].len = Unwrap(plan.asset_size)
    /\ plan.asset_sha256 # None =>
          cache[asset_path(plan)].sha = Lower(Unwrap(plan.asset_sha256))

\* apply_one was called with a release plan on the store a successful
\* application of that plan leaves: its installed state in the row, the
\* records of its asset as the manifest
AlreadyApplied(a) ==
    /\ a.plan.mode # "addon_git"
    /\ a.row0 = PlanState(a.plan)
    /\ asset_path(a.plan) \in DOMAIN dlcache
    /\ a.inst0 = ManifestOf(a.plan.repo_id,
                            RecordsOf(InstallSteps(a.plan, dlcache[asset_path(a.plan)],
                                                   a.raw_dest).steps))

C12_Step ==
    /\ (/\ ap.pc = "one"
        /\ AlreadyApplied(ap)
        /\ CacheMatches(dlcache, ap.plan)) =>
           /\ ap'.pc # "download"
           /\ net' = net
    /\ (ap.pc \in OnePcs \ {"one"}) => net' = net
    /\ (/\ ap.pc \in OnePcs
        /\ ap'.pc \notin OnePcs
        /\ ap'.lastok
        /\ AlreadyApplied(ap)) =>
           /\ Db_list_installs(installs', ap.plan.repo_id) = ap.inst0
           /\ InstalledState(Row2(repos', ap.plan.repo_id)) = ap.row0

\* C12: applying a release plan again, on the store its first successful
\* application left and with the cached asset file still of the expected
\* size and digest, sends no download request; and when the second
\* application has succeeded the manifest and the installed-asset state of
\* the project are what the first left.
C12_ApplyIdempotent == [][C12_Step]_vars

\* witness: a forced reinstall of the installed asset, which has a known
\* size and digest, succeeded without any request for the asset
C12_Witness ==
    /\ ap.pc = "ok"
    /\ ap.lastok
    /\ ap.op = "reinstall_repo"
    /\ AlreadyApplied(ap)
    /\ ap.plan.asset_size # None
    /\ ap.plan.asset_sha256 # None
    /\ ap.inst0 # {}
    /\ \A q \in net : q.kind # "asset"

-----------------------------------------------------------------------------
(* The release-cache specification: forge::latest_release called again and *)
(* again, for projects that share a cache key or not and with any tag,     *)
(* while time passes, requests fail and the forge publishes a new release. *)
(* pin is the call waiting for the forge's answer, pout what the last call *)
(* returned, last.done the last answer of the forge for each cache key.    *)

CacheUrls ==
    {MkUrl("https", GithubCom, <<"o", "n">>), MkUrl("https", GithubCom, <<"O", "n">>),
     MkUrl("https", CodebergOrg, <<"o", "n">>)}

CacheEtags == {None, Some("e1"), Some("e2")}

CacheTimes == {0, 5, 45, 46, 95}

\* the forges after o/n on github.com has published its next release
ForgeV2 ==
    (<<GithubCom, <<"o", "n">>>> :>
        Some([tag |-> "v2", etag |-> Some("e2"),
              assets |-> <<Asset(Some("a2"), <<"a", ".", "zip">>,
                                 DownloadUrl(GithubCom, "a.zip"), Some(1), None)>>]))
    @@ ForgeV1

InitCache ==
    /\ FreshStore
    /\ token = FALSE
    /\ now = 0
    /\ clones = {}
    /\ last = [op |-> "init", tick |-> 0, done |-> << >>]
    /\ forge = ForgeV1
    /\ disk = << >>
    /\ dlcache = << >>
    /\ IdleRun
    /\ NoPure

\* what a call of latest_release returned
Returned(det, etag, res, cached) ==
    [det |-> det, etag |-> etag, res |-> res, cached |-> cached, at |-> now]

\* forge::latest_release lines 243-245 on what cache_read returned
LatestReleaseRead(det, etag, cr) ==
    /\ relcache' = cr.cache
    /\ IF cr.hit
       THEN /\ pout' = Returned(det, etag, cr.res, TRUE)
            /\ pin' = None
       ELSE /\ pout' = pout
            /\ pin' = Some([det |-> det, etag |-> etag])

\* forge::latest_release is called: it returns from the cache, or sends the
\* request of the project's dialect
LatestReleaseCall(det, etag) ==
    /\ pin = None
    /\ LatestReleaseRead(det, etag, cache_read(relcache, det, etag, now))
    /\ UNCHANGED <<storeVars, clones, last, worldVars, net, pass, task, ap>>

\* forge::latest_release lines 247-257 on the answer of the forge
LatestReleaseServed(det, etag, res) ==
    /\ relcache' = AfterServer(relcache, det, res, now)
    /\ pout' = Returned(det, etag, res, FALSE)
    /\ pin' = None
    /\ last' = [op |-> "latest_release", tick |-> now,
                done |-> Put(last.done, cache_key(det),
                             [tick |-> now, ok |-> res.ok, not_modified |-> res.not_modified])]

\* the forge answers the request in flight
LatestReleaseAnswer(fault) ==
    /\ pin # None
    /\ LatestReleaseServed(Unwrap(pin).det, Unwrap(pin).etag,
                           ServerResult(forge, Unwrap(pin).det, Unwrap(pin).etag, fault))
    /\ UNCHANGED <<storeVars, clones, worldVars, net, pass, task, ap>>

NextCache ==
    \/ \E u \in CacheUrls, etag \in CacheEtags : LatestReleaseCall(detect_repo(u), etag)
    \/ \E fault \in {PlainMsg("none"), PlainMsg("request_failed")} : LatestReleaseAnswer(fault)
    \/ \E t \in CacheTimes : Tick(t)
    \/ forge = ForgeV1 /\ Publish(ForgeV2)

SpecCache == InitCache /\ [][NextCache]_vars

\* the cache key of the claim: forge kind, host and project path in lower case
KeyOf(det) == <<Lower(det.forge_str), LowerSeq(det.host), LowerSeq(det.project_path)>>

\* the forge has answered a request for the key with Ok, no longer ago than the TTL
FetchedWithinTtl(key) ==
    /\ key \in DOMAIN last.done
    /\ last.done[key].ok
    /\ now - last.done[key].tick <= 45

C13_Step ==
    (pin = None /\ pin' # None) => ~FetchedWithinTtl(KeyOf(Unwrap(pin').det))

\* C13: once the forge has answered a latest-release request for a cache
\* key (with a release or with not-modified, the caller having supplied a
\* tag or not), no call of latest_release for that key within the next 45
\* seconds sends a request to the forge.
C13_CacheDeduplicates == [][C13_Step]_vars

\* the part of C13 the code keeps: after an answer that carried a release
C13_ReleaseStep ==
    (pin = None /\ pin' # None) =>
        ~(/\ FetchedWithinTtl(KeyOf(Unwrap(pin').det))
          /\ ~last.done[KeyOf(Unwrap(pin').det)].not_modified)

C13_ReleaseAnswersAreCached == [][C13_ReleaseStep]_vars

\* a call answered from the cache for a project spelled differently from
\* the one whose answer was cached
C13_SharedKey ==
    /\ pout # << >>
    /\ pout.cached
    /\ pout.det.project_path = <<"O", "n">>
    /\ \A k \in DOMAIN relcache : relcache[k].etag = Some("e1")

\* latest_release returned what the cache holds for the project
CacheHit == pin = None /\ pin' = None /\ pout' # pout

\* the project latest_release was called for in this step
Called == IF pin' # None THEN Unwrap(pin').det ELSE pout'.det

C14_Step ==
    /\ CacheHit =>
          /\ KeyOf(pout'.det) \in DOMAIN relcache
          /\ now - relcache[KeyOf(pout'.det)].fetched_at <= 45
          /\ pout'.res.ok
          /\ pout'.res.new_etag = relcache[KeyOf(pout'.det)].etag
          /\ pout'.res.not_modified <=>
                (pout'.etag # None /\ pout'.etag = relcache[KeyOf(pout'.det)].etag)
          /\ pout'.res.rel = IF pout'.res.not_modified THEN None
                             ELSE Some(relcache[KeyOf(pout'.det)].release)
    /\ (/\ pin = None
        /\ pin' # None \/ pout' # pout
        /\ KeyOf(Called) \in DOMAIN relcache
        /\ now - relcache[KeyOf(Called)].fetched_at > 45) =>
           /\ pin' # None
           /\ KeyOf(Called) \notin DOMAIN relcache'

\* C14: when latest_release answers from the release cache, it returns the
\* cached tag, and not_modified = true with no release exactly when the
\* caller supplied a tag equal to the cached one, else the cached release
\* with not_modified = false; an entry older than 45 seconds is not
\* returned, and the call removes it.
C14_CacheHitHonorsTag == [][C14_Step]_vars

\* witness: a hit on an entry exactly 45 seconds old, for a caller whose
\* tag is the cached one
C14_Witness ==
    /\ pout # << >>
    /\ pout.cached
    /\ pout.res.not_modified
    /\ pout.at = 45
    /\ KeyOf(pout.det) \in DOMAIN relcache
    /\ relcache[KeyOf(pout.det)].fetched_at = 0

-----------------------------------------------------------------------------
(* The label specification: effective_latest_label applied to a release    *)
(* tag and the name of the chosen asset.                                   *)

LabelTags ==
    {<<"l", "a", "t", "e", "s", "t">>,
     <<" ", "L", "a", "t", "e", "s", "t", " ">>,
     <<"r", "e", "l", "e", "a", "s", "e">>,
     <<"R", "E", "L", "E", "A", "S", "E", " ", "2", "0", "2", "4">>,
     <<"s", "t", "a", "b", "l", "e">>,
     <<"c", "u", "r", "r", "e", "n", "t">>,
     <<"d", "o", "w", "n", "l", "o", "a", "d">>,
     <<>>,
     <<" ">>,
     <<"v", "1", ".", "2">>,
     <<" ", "v", "1", ".", "2", " ">>,
     <<"n", "i", "g", "h", "t", "l", "y">>,
     <<"l", "a", "t", "e", "s", "t", "x">>,
     <<"s", "t", "a", "b", "l", "e", " ", "b", "u", "i", "l", "d">>,
     <<"c", "u", "r", "r", "e", "n", "t", " ", "2">>,
     <<"1", ".", "0">>}

LabelNames ==
    {<<"S", "u", "p", "e", "r", "W", "o", "W", "_", "1", ".", "5", ".", "1", ".", "z", "i", "p">>,
     <<"S", "u", "p", "e", "r", "W", "o", "W", " ", "1", ".", "5", ".", "1", ".", "z", "i", "p">>,
     <<"S", "u", "p", "e", "r", "W", "o", "W", "-", "1", ".", "5", ".", "1", ".", "z", "i", "p">>,
     <<"a", "-", "v", "2", "_", "0", ".", "z", "i", "p">>,
     <<"t", "o", "o", "l", ".", "z", "i", "p">>,
     <<"x", "-", "1", ".", "2", ".", "3", ".", "4", ".", "5", ".", "z", "i", "p">>,
     <<"x", " ", "1", ".", "0", "-", "r", "c", ".", "1", ".", "z", "i", "p">>,
     <<"d", "x", "v", "k", "2", ".", "z", "i", "p">>,
     <<"V", "3", ".", "1">>,
     <<"x", " ", "1", ".", "5", "_", "b", ".", "z", "i", "p">>}

InitLabel ==
    /\ FreshStore
    /\ token = FALSE
    /\ now = 0
    /\ clones = {}
    /\ last = InitLast
    /\ EmptyWorld
    /\ IdleRun
    /\ pin \in {[tag |-> t, asset_name |-> n] : t \in LabelTags, n \in LabelNames}
    /\ pout = << >>

\* build_update_plan_for_repo line 819, reinstall_repo line 1848
LatestLabel ==
    /\ pout = << >>
    /\ pout' = Some(EffectiveLatestLabel(pin.tag, pin.asset_name))
    /\ UNCHANGED <<storeVars, clones, last, worldVars, runVars, pin>>

SpecLabel == InitLabel /\ [][LatestLabel]_vars

\* C16: with a generic release tag ("latest", "release", ...) the label is
\* the version-shaped token of the asset's file name: "SuperWoW_1.5.1.zip",
\* like the same name with a space or a dash before the version, gives
\* "1.5.1"; a tag that is not generic is the label, trimmed.
C16_LabelExtraction ==
    pout # << >> =>
        /\ ~IsGenericReleaseLabel(pin.tag) => Unwrap(pout) = TrimChars(pin.tag)
        /\ (/\ IsGenericReleaseLabel(pin.tag)
            /\ pin.asset_name \in {<<"S", "u", "p", "e", "r", "W", "o", "W", "_", "1", ".", "5",
                ".", "1", ".", "z", "i", "p">>,
                                   <<"S", "u", "p", "e", "r", "W", "o", "W", " ", "1", ".", "5",
                                       ".", "1", ".", "z", "i", "p">>,
                                   <<"S", "u", "p", "e", "r", "W", "o", "W", "-", "1", ".", "5",
                                       ".", "1", ".", "z", "i", "p">>}) =>
               Unwrap(pout) = <<"1", ".", "5", ".", "1">>

\* the part of C16 the code keeps: the version is found after a space or a dash
C16_LabelAfterSeparator ==
    pout # << >> =>
        /\ ~IsGenericReleaseLabel(pin.tag) => Unwrap(pout) = TrimChars(pin.tag)
        /\ (/\ IsGenericReleaseLabel(pin.tag)
            /\ pin.asset_name \in {<<"S", "u", "p", "e", "r", "W", "o", "W", " ", "1", ".", "5",
                ".", "1", ".", "z", "i", "p">>,
                                   <<"S", "u", "p", "e", "r", "W", "o", "W", "-", "1", ".", "5",
                                       ".", "1", ".", "z", "i", "p">>}) =>
               Unwrap(pout) = <<"1", ".", "5", ".", "1">>

\* the label taken from the name with a space, under the tag "latest"
C16_Extracted ==
    /\ pout = Some(<<"1", ".", "5", ".", "1">>)
    /\ pin.tag = <<"l", "a", "t", "e", "s", "t">>

-----------------------------------------------------------------------------
(* The TOC-stem specification: normalize_toc_stem applied to a name made   *)
(* of a base and up to two trailing pieces.                                *)

TocBases ==
    {<<"p", "f", "Q", "u", "e", "s", "t">>, <<"p", "f", "U", "I">>, <<"M", "y", "A", "d", "d",
    "o", "n">>, <<"n", "a", "m", "p", "o", "w", "e", "r">>, <<"V", "a", "n", "i", "l", "l", "a",
    "H", "e", "l", "p", "e", "r", "s">>, <<"A", "d", "d", "o", "n", "-", "T", "o", "o", "l", "i",
    "n", "g">>, <<>>, <<"x">>}

TocPieces ==
    {<<"-", "c", "l", "a", "s", "s", "i", "c">>, <<"-", "b", "c", "c">>, <<"-", "v", "a", "n",
    "i", "l", "l", "a">>, <<"-", "t", "b", "c">>, <<"-", "m", "a", "i", "n", "l", "i", "n",
    "e">>, <<"-", "w", "r", "a", "t", "h">>, <<"-", "w", "o", "t", "l", "k">>, <<"-", "w", "o",
    "t", "l", "k", "c">>, <<"-", "e", "r", "a">>, <<"-", "c", "l", "a", "s", "s", "i", "c", "e",
    "r", "a">>, <<"-", "r", "e", "t", "a", "i", "l">>, <<"-", "c", "a", "t", "a">>, <<"-", "s",
    "o", "d">>, <<"_", "C", "l", "a", "s", "s", "i", "c">>, <<"_", "B", "c", "c">>, <<"_", "V",
    "a", "n", "i", "l", "l", "a">>, <<"_", "T", "b", "c">>, <<"_", "M", "a", "i", "n", "l", "i",
    "n", "e">>, <<"_", "W", "r", "a", "t", "h">>, <<"_", "W", "o", "t", "l", "k">>, <<"_", "W",
    "o", "t", "l", "k", "c">>, <<"_", "E", "r", "a">>, <<"_", "C", "l", "a", "s", "s", "i", "c",
    "e", "r", "a">>, <<"_", "R", "e", "t", "a", "i", "l">>, <<"_", "C", "a", "t", "a">>, <<"_",
    "S", "o", "d">>, <<"-", "W", "O", "T", "L", "K", "C">>, <<"_">>, <<"-">>, <<" ">>, <<"-",
    "b", "e", "t", "a">>, <<"t", "b", "c">>, <<"-", "T", "o", "o", "l", "i", "n", "g">>, <<>>}

InitToc ==
    /\ FreshStore
    /\ token = FALSE
    /\ now = 0
    /\ clones = {}
    /\ last = InitLast
    /\ EmptyWorld
    /\ IdleRun
    /\ pin \in {b \o p \o q : b \in TocBases, p \in TocPieces, q \in TocPieces}
    /\ pout = << >>

\* addon_folder_name_from_toc line 456
NormalizeTocStem ==
    /\ pout = << >>
    /\ pout' = Some(normalize_toc_stem(pin))
    /\ UNCHANGED <<storeVars, clones, last, worldVars, runVars, pin>>

SpecToc == InitToc /\ [][NormalizeTocStem]_vars

\* s ends, whatever the case of its letters, in a suffix of the closed set
EndsInSuffix(s) ==
    \E w \in {<<"c", "l", "a", "s", "s", "i", "c">>, <<"b", "c", "c">>, <<"v", "a", "n", "i",
    "l", "l", "a">>, <<"t", "b", "c">>, <<"m", "a", "i", "n", "l", "i", "n", "e">>, <<"w", "r",
    "a", "t", "h">>, <<"w", "o", "t", "l", "k">>, <<"w", "o", "t", "l", "k", "c">>, <<"e", "r",
    "a">>, <<"c", "l", "a", "s", "s", "i", "c", "e", "r", "a">>, <<"r", "e", "t", "a", "i",
    "l">>, <<"c", "a", "t", "a">>, <<"s", "o", "d">>} :
       \E sep \in {"-", "_"} : EndsWithChars(LowerChars(s), <<sep>> \o w)

\* s without the suffix of the closed set it ends in
BeforeSuffix(s) ==
    SubSeq(s, 1, Len(s) - Len(CHOOSE x \in {SUFFIXES[i] : i \in 1..Len(SUFFIXES)} :
                                    EndsWithChars(LowerChars(s), x)))

\* s is made of suffixes of the closed set only
RECURSIVE OnlySuffixes(_)
OnlySuffixes(s) == s = << >> \/ (EndsInSuffix(s) /\ OnlySuffixes(BeforeSuffix(s)))

\* s is made of suffixes of the closed set, dashes, underscores and blanks only
RECURSIVE OnlyFill(_)
OnlyFill(s) ==
    \/ s = << >>
    \/ s[Len(s)] \in {"-", "_", " "} /\ OnlyFill(SubSeq(s, 1, Len(s) - 1))
    \/ EndsInSuffix(s) /\ OnlyFill(BeforeSuffix(s))

\* the examples of the claim
TocExamples ==
    {<<<<"p", "f", "Q", "u", "e", "s", "t", "-", "t", "b", "c">>, <<"p", "f", "Q", "u", "e", "s",
    "t">>>>, <<<<"p", "f", "Q", "u", "e", "s", "t", "-", "w", "o", "t", "l", "k">>, <<"p", "f",
    "Q", "u", "e", "s", "t">>>>, <<<<"p", "f", "Q", "u", "e", "s", "t", "_", "W", "r", "a", "t",
    "h">>, <<"p", "f", "Q", "u", "e", "s", "t">>>>, <<<<"p", "f", "U", "I", "-", "C", "l", "a",
    "s", "s", "i", "c">>, <<"p", "f", "U", "I">>>>, <<<<"M", "y", "A", "d", "d", "o", "n", "-",
    "W", "O", "T", "L", "K", "C">>, <<"M", "y", "A", "d", "d", "o", "n">>>>, <<<<"n", "a", "m",
    "p", "o", "w", "e", "r">>, <<"n", "a", "m", "p", "o", "w", "e", "r">>>>, <<<<"V", "a", "n",
    "i", "l", "l", "a", "H", "e", "l", "p", "e", "r", "s">>, <<"V", "a", "n", "i", "l", "l", "a",
    "H", "e", "l", "p", "e", "r", "s">>>>, <<<<"A", "d", "d", "o", "n", "-", "T", "o", "o", "l",
    "i", "n", "g">>, <<"A", "d", "d", "o", "n", "-", "T", "o", "o", "l", "i", "n", "g">>>>}

ExamplesHold == \A e \in TocExamples : pin = e[1] => Unwrap(pout) = e[2]

RemovedTail(s) == s = << >> \/ (EndsInSuffix(s) /\ OnlyFill(BeforeSuffix(s)))

-----------------------------------------------------------------------------
(* The apply specification, continued: the sample addon from check to      *)
(* installation.                                                           *)

\* the project s/n of the sample scenario, tracked with mode addon
SampleRepo(r) == r.owner = <<"s">> /\ r.mode = "addon"

SampleEntry(id) ==
    [repo_id |-> id,
     path |-> AddonsPath(<<"S", "a", "m", "p", "l", "e">>),
     kind |-> "addon"]

C15_Step ==
    /\ (/\ ap.pc = "build"
        /\ ap'.pc # "build"
        /\ SampleRepo(ap.t.r)
        /\ ap.t.r.enabled
        /\ ap.op # "reinstall_repo"
        /\ ap.t.r.installed_asset_id = None
        /\ ap.t.pc = "done"
        /\ ap.t.plan.error = None) =>
           ap.t.plan.asset_url # EmptyUrl
    /\ (/\ ap.pc \in OnePcs
        /\ ap'.pc \notin OnePcs
        /\ ap'.lastok
        /\ SampleRepo(ap.t.r)) =>
           /\ Db_list_installs(installs', ap.plan.repo_id) = {SampleEntry(ap.plan.repo_id)}
           /\ Row2(repos', ap.plan.repo_id).installed_asset_name
                 = Some(<<"sample-addon", ".", "zip">>)

\* C15: for the enabled project tracked with mode addon and never installed, whose
\* forge has one release with the single asset sample-addon.zip holding
\* Interface/AddOns/Sample/Sample.toc, a check plan without error has a
\* non-empty asset_url, and after a successful apply the manifest of the
\* project is exactly the addon entry Interface/AddOns/Sample and
\* installed_asset_name is "sample-addon.zip".
C15_EndToEnd == [][C15_Step]_vars

\* witness: update_repo installed the sample addon of a project that had no
\* manifest
C15_Witness ==
    /\ ap.pc = "ok"
    /\ ap.lastok
    /\ ap.op = "update_repo"
    /\ SampleRepo(ap.t.r)
    /\ ap.inst0 = {}
    /\ ap.plan.asset_url # EmptyUrl
    /\ installs = {SampleEntry(ap.plan.repo_id)}
    /\ AddonsPath(<<"S", "a", "m", "p", "l", "e">>) \in DOMAIN disk

-----------------------------------------------------------------------------
(* The removal specification: projects are added, imported from clones and *)
(* removed, manifest entries and cooldowns are written in between.         *)

RemoveUrls ==
    {MkUrl("https", GithubCom, <<"o", "n">>),
     MkUrl("https", CodebergOrg, <<"g", "n">>)}

RemovePaths == {AddonsPath("A"), AddonsPath("G")}

NextRemove ==
    \/ \E u \in RemoveUrls : AddRepo(u, "addon", None)
    \/ \E id \in Ids, p \in RemovePaths : AddInstall(id, p, "addon")
    \/ \E id \in Ids : AddInstall(id, <<<<"b", ".", "dll">>>>, "dll")
    \/ \E c \in CloneCatalog : UserClones(c)
    \/ ImportExisting
    \/ \E e \in Epochs : SetRateLimit(GithubCom, e)
    \/ \E id \in Ids, wow \in BOOLEAN, remove_local_files \in BOOLEAN,
          fault \in {"", "list_installs", "remove_any_target", "remove_repo"} :
          RemoveRepo(id, wow, remove_local_files, fault)

SpecRemove == Init /\ [][NextRemove]_vars

\* remove_repo(id) has returned Ok
Removed(id) ==
    /\ last'.tick # last.tick
    /\ last'.op = "remove_repo"
    /\ last'.ok
    /\ last'.id = id

C18_Step ==
    \A id \in Ids :
        Removed(id) =>
            /\ Db_list_installs(installs', id) = {}
            /\ {r \in repos' : r.id # id} = {r \in repos : r.id # id}
            /\ {e \in installs' : e.repo_id # id} = {e \in installs : e.repo_id # id}
            /\ rate_limits' = rate_limits

\* C18: after remove_repo(id) the store holds no manifest entry of project
\* id, and the rows, the manifest entries and the rate-limit cooldowns of
\* every other project are as they were.
C18_RemoveCascades == [][C18_Step]_vars

\* witness: a project with manifest entries whose files were deleted has been
\* removed while another project with manifest entries and a cooldown are
\* stored
C18_Witness ==
    /\ last.op = "remove_repo"
    /\ last.ok
    /\ last.removed_paths > 0
    /\ ~Tracked(last.id)
    /\ \E r \in repos : Cardinality(Db_list_installs(installs, r.id)) = 2
    /\ rate_limits # {}

-----------------------------------------------------------------------------
(* The apply specification, continued: disabled projects.                  *)

\* apply_updates or update_repo is about to build the plan of a disabled row
DisabledNext ==
    /\ ap.pc = "next"
    /\ ap.op \in {"apply_updates", "update_repo"}
    /\ ap.queue # << >>
    /\ ~ap.queue[1].enabled

\* the label a row has stored: last_version, or the version in the name of
\* the installed asset when last_version is a generic label
StoredLabels(r) ==
    {r.last_version} \cup
    (IF r.installed_asset_name # None
     THEN {version_from_asset_name(Unwrap(r.installed_asset_name))} ELSE {})

C19_Step ==
    /\ DisabledNext =>
          /\ ap'.pc = "build"
          /\ ap'.t.pc = "done"
          /\ ap'.t.calls = 0
          /\ net' = net
          /\ UNCHANGED <<repos, installs, rate_limits, relcache, disk, dlcache>>
          /\ ap'.t.plan.current \in StoredLabels(ap.queue[1])
          /\ ap'.t.plan.current = None <=> ap.queue[1].last_version = None
          /\ ap'.t.plan.latest = IF ap'.t.plan.current = None THEN "unknown"
                                 ELSE Unwrap(ap'.t.plan.current)
          /\ ap'.t.plan.asset_url = EmptyUrl
          /\ ap'.t.plan.error = None
          /\ ~ap'.t.plan.repair_needed
          /\ ~ap'.t.plan.not_modified
    /\ (/\ ap.pc = "build"
        /\ ap.op \in {"apply_updates", "update_repo"}
        /\ ~ap.t.r.enabled) =>
          /\ ap'.pc \in {"next", "ok"}
          /\ ap.op = "apply_updates" =>
                /\ ap'.plans = Append(ap.plans, ap.t.plan)
                /\ ~ap.t.plan.applied
          /\ UNCHANGED <<repos, installs, rate_limits, relcache, disk, dlcache, net>>

\* C19: building the plan of a disabled project sends no forge and no git
\* request and writes nothing to the store; the plan carries the stored label
\* as current and latest ("unknown" when none is stored), an empty asset_url,
\* no error, repair_needed and not_modified false; apply_updates and
\* update_repo then go on without installing, downloading or touching the
\* manifest.
C19_DisabledNoOp == [][C19_Step]_vars

\* witness: update_repo returned without a plan for a disabled project that
\* has v1 installed while the forge offers another release
C19_Witness ==
    /\ ap.pc = "ok"
    /\ ap.op = "update_repo"
    /\ ~ap.t.r.enabled
    /\ ap.t.r.mode # "addon_git"
    /\ ap.t.pc = "done"
    /\ ap.t.r.last_version = Some("v1")
    /\ ap.t.plan.latest = "v1"
    /\ forge # ApplyWorlds[1]
    /\ installs # {}

-----------------------------------------------------------------------------
(* The batching specification: check passes over a store of five git-mode  *)
(* and five release-mode projects whose forges and remotes answer.         *)

BatchStore ==
    << <<MkUrl("https", GithubCom, <<"o", "n">>), "addon">>,
       <<MkUrl("https", GithubCom, <<"O", "n">>), "dll">>,
       <<MkUrl("https", GithubCom, <<"o", "N">>), "raw">>,
       <<MkUrl("https", CodebergOrg, <<"o", "n">>), "addon">>,
       <<MkUrl("https", GitlabCom, <<"a", "b", "n">>), "auto">>,
       <<MkUrl("https", GithubCom, <<"a", "n">>), "addon_git">>,
       <<MkUrl("https", GithubCom, <<"b", "n">>), "addon_git">>,
       <<MkUrl("https", GithubCom, <<"c", "n">>), "addon_git">>,
       <<MkUrl("https", GithubCom, <<"d", "n">>), "addon_git">>,
       <<MkUrl("https", GithubCom, <<"e", "n">>), "addon_git">> >>

InitBatch ==
    /\ repos = BuildRows(BatchStore, {})
    /\ nextId = Cardinality(BuildRows(BatchStore, {})) + 1
    /\ installs = {}
    /\ rate_limits = {}
    /\ token = FALSE
    /\ now = 0
    /\ clones = {}
    /\ last = InitLast
    /\ forge = ForgeV1
    /\ disk = << >>
    /\ dlcache = << >>
    /\ IdleRun
    /\ NoPure

NextBatch ==
    \/ StartPass(TRUE, "")
    \/ \E id \in Ids : TaskStart(id, "")
    \/ \E id \in Ids : TaskFetched(id, PlainMsg("none"))
    \/ \E id \in Ids : TaskGitAnswered(id, Some(GitHead("c1", "master")), "")
    \/ BatchJoin
    \/ FinishPass

SpecBatch == InitBatch /\ [][NextBatch]_vars

\* the build of id has been started and has not returned
InFlight(id) == id \in DOMAIN task /\ task[id].pc \notin {"wait", "done", "err"}

\* the build of id has been polled
Polled(id) == id \in DOMAIN task /\ task[id].pc # "wait"

\* C20: at most 4 release-mode plan builds are in flight at any time, every
\* build of one group of 4 has returned before a build of a later group is
\* started, and a git-mode build that has not been started can be started
\* whatever the other git-mode builds and the release-mode group are doing.
C20_BoundedBatching ==
    /\ Cardinality({i \in 1..Len(pass.rel) : InFlight(pass.rel[i])}) <= 4
    /\ \A i, j \in 1..Len(pass.rel) :
          ((i - 1) \div 4 < (j - 1) \div 4 /\ Polled(pass.rel[j])) => Settled(pass.rel[i])
    /\ pass.status = "running" =>
          \A i \in 1..Len(pass.git) :
              task[pass.git[i]].pc = "wait" => ENABLED TaskStart(pass.git[i], "")

\* witness: five git-mode builds and the four release-mode builds of the first
\* group are in flight at once, the fifth release-mode build waiting
C20_Witness ==
    /\ pass.status = "running"
    /\ Len(pass.git) = 5
    /\ Len(pass.rel) = 5
    /\ \A i \in 1..5 : InFlight(pass.git[i])
    /\ \A i \in 1..4 : InFlight(pass.rel[i])
    /\ task[pass.rel[5]].pc = "wait"

-----------------------------------------------------------------------------
(* The apply specification, continued: where the git network operations    *)
(* run.  "worker" is the closure handed to tokio::task::spawn_blocking,     *)
(* "task" the thread that polls the future of the engine operation.        *)

\* lines 641-645 (the async plan builder, used by check_updates_with_wow,
\* apply_updates and update_repo) against line 558 (the plan builder
\* reinstall_repo calls at line 1824): who runs remote_head_for_branch
RemoteHeadContext(op) == IF op = "reinstall_repo" THEN "task" ELSE "worker"

\* line 1637: apply_one calls git_sync::sync_repo (clone, fetch) itself
SyncContext == "task"

\* the git network operations under way, each with the context it runs in
GitNetworkOps ==
    {[what |-> "remote_head_for_branch", id |-> id, context |-> RemoteHeadContext("check_updates")] :
        id \in {x \in DOMAIN task : task[x].pc = "git"}}
    \cup (IF ap.pc = "build" /\ ap.t.pc = "git"
          THEN {[what |-> "remote_head_for_branch", id |-> ap.t.r.id,
                 context |-> RemoteHeadContext(ap.op)]}
          ELSE {})
    \cup (IF ap.pc = "one" /\ ap.plan.mode = "addon_git" /\ Tracked(ap.plan.repo_id)
          THEN {[what |-> "sync_repo", id |-> ap.plan.repo_id, context |-> SyncContext]}
          ELSE {})

\* C21: every git network operation of the engine's asynchronous operations
\* (the remote ref listing of a check, the clone and fetch of update_repo,
\* apply_updates and reinstall_repo) runs on the blocking worker and never on
\* the thread that polls the tasks.
C21_GitOffloaded == \A g \in GitNetworkOps : g.context = "worker"

\* the part that holds: the remote ref listing of the plan builds of
\* apply_updates and update_repo runs on the blocking worker
C21_PlanBuildsOffloaded ==
    \A g \in GitNetworkOps :
        (g.what = "remote_head_for_branch" /\ ap.op # "reinstall_repo") => g.context = "worker"

\* a plan build of update_repo waits for its worker
C21_Offloaded ==
    \E g \in GitNetworkOps : g.context = "worker" /\ ap.op = "update_repo"

-----------------------------------------------------------------------------
(* The raw-mode specification: update_repo with and without a raw          *)
(* destination on a store of one raw-mode project, whose forge publishes a *)
(* text file, an archive or a DLL.                                         *)

RawStore == << <<MkUrl("https", GithubCom, <<"o", "n">>), "raw">> >>

RawWorlds ==
    <<Published("v1", "e1", Asset(Some("r1"), <<"a", ".", "txt">>,
                                  DownloadUrl(GithubCom, "a.txt"), Some(1), None)),
      Published("v2", "e2", Asset(Some("a1"), <<"a", ".", "zip">>,
                                  DownloadUrl(GithubCom, "a.zip"), Some(1), None)),
      Published("v3", "e3", Asset(Some("a3"), <<"b", ".", "dll">>,
                                  DownloadUrl(GithubCom, "b.dll"), Some(1), None))>>

\* the folders a caller passes as raw_dest
RawDests == {None, Some("dest")}

InitRaw ==
    /\ repos = BuildRows(RawStore, {})
    /\ nextId = Cardinality(BuildRows(RawStore, {})) + 1
    /\ installs = {}
    /\ rate_limits = {}
    /\ token = FALSE
    /\ now = 0
    /\ clones = {}
    /\ last = InitLast
    /\ forge = RawWorlds[1]
    /\ disk = << >>
    /\ dlcache = << >>
    /\ IdleRun
    /\ NoPure

NextRaw ==
    \/ \E id \in Ids, dest \in RawDests, f \in {"", "get_repo"} : UpdateRepoTo(id, dest, FALSE, f)
    \/ Return
    \/ \E f \in {"", "list_installs"} : NextRepo(f)
    \/ \E fault \in {PlainMsg("none"), PlainMsg("request_failed")} : BuildFetched(fault)
    \/ PlanReady
    \/ \E iofail \in BOOLEAN : OneRelease(iofail)
    \/ \E kind \in ResponseKinds : Downloaded(kind)
    \/ Verify
    \/ \E k \in 0..MaxSteps : Install(k)
    \/ \E f \in {"", "list_installs"} : Cleanup(f)
    \/ \E f \in {"", "clear_installs"} : PersistClear(f)
    \/ \E f \in {"", "add_install"} : PersistAdd(f)
    \/ \E f \in {"", "set_installed_asset_state"} : SetState(f)
    \/ \E i \in 1..Len(RawWorlds) : Publish(RawWorlds[i])

SpecRaw == InitRaw /\ [][NextRaw]_vars

\* apply_one of a raw-mode plan returns Ok
RawApplied ==
    /\ ap.pc \in OnePcs
    /\ ap'.pc \notin OnePcs
    /\ ap'.lastok
    /\ ap.plan.mode = "raw"

\* the asset file itself, unextracted, under the raw destination
RawTarget(a) == <<Unwrap(a.raw_dest), a.plan.asset_name>>

\* the manifest and the disk a raw-mode installation of the plan of a leaves
RawInstalled(a, inst, dsk) ==
    /\ a.raw_dest # None
    /\ Db_list_installs(inst, a.plan.repo_id) =
          {[repo_id |-> a.plan.repo_id, path |-> RawTarget(a), kind |-> "raw"]}
    /\ RawTarget(a) \in DOMAIN dsk
    /\ dsk[RawTarget(a)] = Content("raw", a.plan.asset_id, "")

\* C22: a successful apply of a raw-mode project puts the downloaded asset
\* file itself into the raw destination and records exactly one raw entry
\* for it, whatever the type of the asset, a .zip included.
C22_RawUnextracted == [][RawApplied => RawInstalled(ap, installs', disk')]_vars

\* the part that holds: an asset that is neither an archive nor a DLL is
\* placed in the raw destination and recorded as one raw entry
C22_RawPlainFile ==
    [][(RawApplied /\ ~looks_like_zip(ap.plan.asset_name)
                   /\ ~EndsWithExt(ap.plan.asset_name, "dll"))
          => RawInstalled(ap, installs', disk')]_vars

\* a text asset has been installed into the raw destination
C22_PlainInstalled ==
    /\ ap.pc = "ok"
    /\ ap.lastok
    /\ ap.plan.asset_name = <<"a", ".", "txt">>
    /\ RawInstalled(ap, installs, disk)

\* an archive has been applied to the raw-mode project: the call returned Ok,
\* nothing is installed and the manifest is empty
C22_ArchiveDropped ==
    /\ ap.pc = "ok"
    /\ ap.lastok
    /\ ap.raw_dest # None
    /\ ap.plan.asset_name = <<"a", ".", "zip">>
    /\ Db_list_installs(installs, ap.plan.repo_id) = {}
    /\ Row(ap.plan.repo_id).installed_asset_name = Some(<<"a", ".", "zip">>)

-----------------------------------------------------------------------------
(* The apply specification, continued: the plan of a git-synced project.   *)

\* the plan build of a git-synced project got the remote head and returned
\* a plan without error
GitPlanned ==
    /\ ap.pc = "build"
    /\ ap.t.pc = "git"
    /\ ap'.t.pc = "done"
    /\ ap'.t.plan.error = None

\* the work tree of the project in hand holds the commit oid
WorkTreeAt(oid) ==
    /\ addon_git_worktree_dir(installs, disk, ap.t.r) \in DOMAIN disk
    /\ disk[addon_git_worktree_dir(installs, disk, ap.t.r)].kind = "git"
    /\ disk[addon_git_worktree_dir(installs, disk, ap.t.r)].aid = oid

ManifestPathMissing(id) ==
    \E e \in Db_list_installs(installs, id) : e.path \notin DOMAIN disk

C23_Step ==
    GitPlanned =>
        (ap'.t.plan.asset_url # EmptyUrl
            <=> (~WorkTreeAt(ap'.t.plan.asset_id) \/ ManifestPathMissing(ap.t.r.id)))

\* C23: for an enabled git-synced project whose remote head resolves, the
\* plan has a non-empty asset_url exactly when the work tree has no HEAD
\* commit, or its HEAD commit is not the remote one, or a path of the
\* project's manifest is missing on disk.
C23_GitNeedsSync == [][C23_Step]_vars

\* witness: the work tree is at the remote head and a deployed addon folder
\* is gone, so the plan asks for a sync and a repair
C23_Witness ==
    /\ ap.pc = "build"
    /\ ap.op = "update_repo"
    /\ ap.t.pc = "done"
    /\ ap.t.r.mode = "addon_git"
    /\ ap.t.plan.error = None
    /\ WorkTreeAt(ap.t.plan.asset_id)
    /\ ManifestPathMissing(ap.t.r.id)
    /\ ap.t.plan.asset_url # EmptyUrl
    /\ ap.t.plan.repair_needed

\* the work tree is at the remote head, nothing is missing, nothing to do
C23_UpToDate ==
    /\ ap.pc = "build"
    /\ ap.t.pc = "done"
    /\ ap.t.r.mode = "addon_git"
    /\ ap.t.plan.error = None
    /\ Db_list_installs(installs, ap.t.r.id) # {}
    /\ ap.t.plan.asset_url = EmptyUrl

-----------------------------------------------------------------------------
(* The retry specification: check passes over one release-mode project     *)
(* whose row is fresh, or was written by a version of the store that kept  *)
(* last_version only (the installed_asset columns are added by the         *)
(* migration, db.rs 118-133), or was written by an apply of this or of     *)
(* another asset; with any stored tag; with no manifest, a manifest that   *)
(* is on disk, or one that is not.                                         *)

RetryStore == << <<MkUrl("https", GithubCom, <<"o", "n">>), "addon">> >>

\* what the last apply stored for the asset a.zip of ForgeV1
AppliedV1(r) ==
    [r EXCEPT !.last_version = Some("v1"),
              !.installed_asset_id = Some(AssetId("a1", EmptyUrl)),
              !.installed_asset_name = Some(<<"a", ".", "zip">>),
              !.installed_asset_size = Some(1),
              !.installed_asset_url = Some(DownloadUrl(GithubCom, "a.zip"))]

RetryKinds ==
    {"fresh", "last_version_only", "label_1.5", "label_latest",
     "applied", "applied_other_name", "applied_other_size", "applied_no_size"}

\* a release under a generic label, the version in the name of its asset
ForgeLatest ==
    (<<GithubCom, <<"o", "n">>>> :>
        Some([tag |-> "latest", etag |-> Some("e3"),
              assets |-> <<Asset(Some("a3"), <<"a", "-", "1_5", ".", "zip">>,
                                 DownloadUrl(GithubCom, "a-1_5.zip"), Some(1), None)>>]))
    @@ ForgeV1

RetryTags == {None, Some("e0"), Some("e1")}

RetryRow(r, kind, etag) ==
    CASE kind = "fresh" -> [r EXCEPT !.etag = etag]
      [] kind = "last_version_only" -> [r EXCEPT !.etag = etag, !.last_version = Some("v1")]
      [] kind = "label_1.5" -> [r EXCEPT !.etag = etag, !.last_version = Some("1.5")]
      [] kind = "label_latest" -> [r EXCEPT !.etag = etag, !.last_version = Some("latest")]
      [] kind = "applied_other_name" ->
            [AppliedV1(r) EXCEPT !.etag = etag,
                                 !.installed_asset_name = Some(<<"b", ".", "zip">>)]
      [] kind = "applied_other_size" ->
            [AppliedV1(r) EXCEPT !.etag = etag, !.installed_asset_size = Some(2)]
      [] kind = "applied_no_size" ->
            [AppliedV1(r) EXCEPT !.etag = etag, !.installed_asset_size = None]
      [] OTHER -> [AppliedV1(r) EXCEPT !.etag = etag]

RetryEntry == [repo_id |-> 1, path |-> AddonsPath("A"), kind |-> "addon"]

InitRetry ==
    /\ \E kind \in RetryKinds, etag \in RetryTags :
          repos = {RetryRow(r, kind, etag) : r \in BuildRows(RetryStore, {})}
    /\ nextId = 2
    /\ \E manifest \in {"none", "on_disk", "missing"} :
          /\ installs = IF manifest = "none" THEN {} ELSE {RetryEntry}
          /\ disk = IF manifest = "on_disk"
                    THEN (AddonsPath("A") :> [kind |-> "addon",
                                              aid |-> AssetId("a1", EmptyUrl),
                                              branch |-> None])
                    ELSE << >>
    /\ rate_limits = {}
    /\ token = FALSE
    /\ now = 0
    /\ clones = {}
    /\ last = InitLast
    /\ forge \in {ForgeV1, ForgeV2, ForgeLatest}
    /\ dlcache = << >>
    /\ IdleRun
    /\ NoPure

NextRetry ==
    \/ \E wow \in BOOLEAN : StartPass(wow, "")
    \/ \E id \in Ids : TaskStart(id, "")
    \/ \E id \in Ids : \E fault \in GithubFaults : TaskFetched(id, fault)
    \/ BatchJoin
    \/ FinishPass
    \/ \E t \in Times : Tick(t)

SpecRetry == InitRetry /\ [][NextRetry]_vars

NoKnownInstall(r) == r.installed_asset_id = None /\ r.last_version = None

NoInstallUrl(r) == r.installed_asset_url = None \/ Unwrap(r.installed_asset_url) = EmptyUrl

\* the build t has called latest_release a second time
Retried(t) == Len(t.sent) = 2

RetryJustified(t) ==
    /\ t.got[1] = "not_modified"
    /\ t.sent[1] # None
    /\ t.sent[1] = t.r.etag
    /\ t.sent[2] = None
    /\ \/ NoKnownInstall(t.r)
       \/ pass.wow /\ ManifestPathMissing(t.r.id) /\ NoInstallUrl(t.r)

BuildBounded(t) ==
    /\ Len(t.sent) <= 2
    /\ t.calls <= Len(t.sent)
    /\ Len(t.got) = IF t.pc = "fetch" THEN Len(t.sent) - 1 ELSE Len(t.sent)
    /\ t.pc \in {"wait", "fetch", "done", "err"}
    /\ Len(t.got) = 2 => t.pc = "done"
    /\ Retried(t) => RetryJustified(t)

\* C24: the build of a release-mode plan calls latest_release at most twice
\* and has its plan once the last call is answered; it calls a second time
\* only after a first call that carried the stored tag was answered "not
\* modified", only for a project with no known install or with a manifest
\* path missing and no recorded install URL, and then without a tag; no
\* other outcome leads to another call.
C24_BoundedRetry == \A id \in DOMAIN task : BuildBounded(task[id])

\* witness: a project without a known install was asked for again
C24_Witness ==
    \E id \in DOMAIN task :
        /\ Retried(task[id])
        /\ task[id].pc = "done"
        /\ NoKnownInstall(task[id].r)
        /\ task[id].got = <<"not_modified", "release">>

\* a project with a known install, files missing and no URL was asked for again
C24_RetriedForRepair ==
    \E id \in DOMAIN task :
        Retried(task[id]) /\ ~NoKnownInstall(task[id].r) /\ task[id].calls = 2

\* "not modified" for a project that is in place is final
C24_NotRetried ==
    \E id \in DOMAIN task :
        /\ task[id].pc = "done"
        /\ task[id].got = <<"not_modified">>
        /\ task[id].plan.not_modified

-----------------------------------------------------------------------------
(* The retry specification, continued: the plan for a fetched release.     *)

\* the build t ended with the plan for a release it fetched
PlannedRelease(t) ==
    /\ t.pc = "done"
    /\ t.got # << >>
    /\ t.got[Len(t.got)] = "release"
    /\ t.plan.error = None

\* the asset of the plan is the one the row records as installed; a row
\* without installed_asset_id is compared by its label
SameIdentity(r, plan) ==
    IF r.installed_asset_id # None
    THEN /\ r.installed_asset_id = Some(plan.asset_id)
         /\ r.installed_asset_name = Some(plan.asset_name)
         /\ r.installed_asset_size = plan.asset_size
    ELSE normalized_current_version(r) = Some(plan.latest)

PlanDecided(t) ==
    /\ t.plan.asset_url # EmptyUrl
          <=> (~SameIdentity(t.r, t.plan) \/ (pass.wow /\ ManifestPathMissing(t.r.id)))
    /\ t.plan.repair_needed
          <=> (SameIdentity(t.r, t.plan) /\ pass.wow /\ ManifestPathMissing(t.r.id))

C25_OtherNameOrSize ==
    \E id \in DOMAIN task :
        /\ PlannedRelease(task[id])
        /\ task[id].r.installed_asset_id = Some(task[id].plan.asset_id)
        /\ ~SameIdentity(task[id].r, task[id].plan)
        /\ task[id].plan.asset_url # EmptyUrl
        /\ ~task[id].plan.repair_needed

\* a row with a label only is up to date by the label taken from the asset name
C25_ByLabel ==
    \E id \in DOMAIN task :
        /\ PlannedRelease(task[id])
        /\ task[id].r.installed_asset_id = None
        /\ task[id].r.last_version = Some("1.5")
        /\ task[id].plan.asset_url = EmptyUrl

\* in place and up to date: nothing to download
C25_UpToDate ==
    \E id \in DOMAIN task :
        /\ PlannedRelease(task[id])
        /\ task[id].r.installed_asset_id # None
        /\ pass.wow
        /\ Db_list_installs(installs, id) # {}
        /\ task[id].plan.asset_url = EmptyUrl

-----------------------------------------------------------------------------
(* pick_asset, continued: the release of the bundled tool                  *)

\* a .zip of the VanillaFixes family that is not the DXVK variant
FamilyZip(n) ==
    /\ StartsWithVanillafixes(n)
    /\ NameExt(n) = Some("zip")
    /\ ~ContainsDxvk(n)

\* the override, if any, matches no allowed asset
NoRegexMatch ==
    \/ pin.asset_regex = None
    \/ /\ RegexCompiles(Unwrap(pin.asset_regex))
       /\ \A i \in 1..Len(pin.assets) :
             ~(/\ RegexIsMatch(Unwrap(pin.asset_regex), pin.assets[i].name)
               /\ NameAllowed(pin.assets[i].name, pin.mode))

\* an archive-oriented pick, without a matching override, from a release
\* that lists an allowed, non-DXVK .zip of the family
BundledToolCase ==
    /\ pout # << >>
    /\ pin.mode \in {"addon", "mixed", "auto"}
    /\ NoRegexMatch
    /\ \E i \in 1..Len(pin.assets) :
          FamilyZip(pin.assets[i].name) /\ NameAllowed(pin.assets[i].name, pin.mode)

\* C26: in an archive-oriented mode without a matching regex override, from
\* a release that lists an allowed .zip whose name starts with
\* "vanillafixes" and holds no "-dxvk", the asset selected is such a .zip of
\* the family, whatever else the release lists and in whatever order.
C26_FamilyZipChosen ==
    BundledToolCase => (pout.ok /\ FamilyZip(pout.asset.name))

\* what the selection does give in that case: an allowed .zip that is not
\* a DXVK variant
C26_NonDxvkZip ==
    BundledToolCase =>
        /\ pout.ok
        /\ NameExt(pout.asset.name) = Some("zip")
        /\ ~ContainsDxvk(pout.asset.name)

\* the DXVK variant listed first is passed over for the plain one
C26_DxvkSkipped ==
    /\ BundledToolCase
    /\ Len(pin.assets) = 2
    /\ ContainsDxvk(pin.assets[1].name)
    /\ pout.ok
    /\ pout.asset = pin.assets[2]

\* another .zip listed before the family's is selected
C26_OtherZipChosen ==
    /\ BundledToolCase
    /\ pout.ok
    /\ ~StartsWithVanillafixes(pout.asset.name)

-----------------------------------------------------------------------------
(* pick_asset, continued: the order of the selection                       *)

Least(S) == CHOOSE i \in S : \A j \in S : i <= j

\* the assets of the release, by index, that are allowed in the mode
AllowedIdx == {i \in 1..Len(pin.assets) : is_asset_allowed(pin.assets[i], pin.mode)}

\* those the override matches
RegexIdx ==
    IF pin.asset_regex = None THEN {}
    ELSE {i \in AllowedIdx : RegexIsMatch(Unwrap(pin.asset_regex), pin.assets[i].name)}

\* those whose name ends with "." and ext, whatever the case
ExtIdx(ext) ==
    {i \in AllowedIdx :
        /\ Len(pin.assets[i].name) >= 2
        /\ pin.assets[i].name[Len(pin.assets[i].name) - 1] = "."
        /\ Lower(pin.assets[i].name[Len(pin.assets[i].name)]) = ext}

ArchiveMode == pin.mode \in {"addon", "mixed", "auto"}

\* the default order as the claim gives it; 0 when nothing is allowed
DefaultIdx ==
    IF ArchiveMode /\ ExtIdx("zip") # {} THEN Least(ExtIdx("zip"))
    ELSE IF pin.mode = "dll" /\ ExtIdx("dll") # {} THEN Least(ExtIdx("dll"))
    ELSE IF AllowedIdx # {} THEN Least(AllowedIdx)
    ELSE 0

HasFamily == \E i \in 1..Len(pin.assets) : StartsWithVanillafixes(pin.assets[i].name)

\* the override is absent or a valid regex
OverrideValid == pin.asset_regex = None \/ RegexCompiles(Unwrap(pin.asset_regex))

Selected(i) ==
    IF i = 0 THEN ~pout.ok ELSE pout.ok /\ pout.asset = pin.assets[i]

\* the plan build_update_plan_for_repo makes of a failed selection
PlanOfFailure ==
    PlanOfPick(NewBuild(CHOOSE r \in BuildRows(RetryStore, {}) : TRUE),
               [tag |-> "v1", assets |-> pin.assets], pout)

ErrorInPlan == ~pout.ok => PlanOfFailure.error = Some(PlainMsg(pout.err))

\* the claim as stated: the override's first allowed match, else the
\* default order, else an error that is the plan's
C27_SelectionOrder ==
    pout # << >> =>
        /\ Selected(IF RegexIdx # {} THEN Least(RegexIdx) ELSE DefaultIdx)
        /\ ErrorInPlan

\* C27: with no override or one that is a valid regex, pick_asset returns
\* the first allowed asset the override matches, when there is one;
\* otherwise, except for an archive-oriented pick from a release of the
\* bundled tool (an asset name starts with "vanillafixes"), the default
\* order applies: the first allowed .zip in addon, mixed and automatic modes,
\* the first allowed .dll in dll mode, else the first allowed asset of any
\* kind; with nothing allowed, or no asset, the result is an error, and the
\* plan of the project carries it.
C27_OrderOutsideBundled ==
    (pout # << >> /\ OverrideValid) =>
        /\ IF RegexIdx # {} THEN Selected(Least(RegexIdx))
           ELSE IF ArchiveMode /\ HasFamily THEN pout.ok <=> AllowedIdx # {}
           ELSE Selected(DefaultIdx)
        /\ ErrorInPlan

\* witness: the override matches a disallowed asset first and an allowed
\* one after it, which is returned
C27_Witness ==
    /\ pout # << >>
    /\ Len(pin.assets) = 2
    /\ pin.asset_regex # None
    /\ RegexIsMatch(Unwrap(pin.asset_regex), pin.assets[1].name)
    /\ ~is_asset_allowed(pin.assets[1], pin.mode)
    /\ RegexIdx = {2}
    /\ pout.ok
    /\ pout.asset = pin.assets[2]
    /\ pin.assets[2] # pin.assets[1]

\* the override matches disallowed assets only: the default order decides
C27_FellThrough ==
    /\ pout # << >>
    /\ pin.asset_regex # None
    /\ RegexIdx = {}
    /\ \E i \in 1..Len(pin.assets) : RegexIsMatch(Unwrap(pin.asset_regex), pin.assets[i].name)
    /\ pout.ok
    /\ DefaultIdx = 2

\* nothing allowed: an error, carried by the plan
C27_NothingAllowed ==
    /\ pout # << >>
    /\ Len(pin.assets) = 2
    /\ AllowedIdx = {}
    /\ ~pout.ok
    /\ PlanOfFailure.error # None
    /\ PlanOfFailure.asset_url = EmptyUrl

-----------------------------------------------------------------------------
(* forge/git_sync.rs: choose_remote_head_for_url on the refs the remote    *)
(* lists.  A ref name is the tuple of its path components, a branch name a *)
(* tuple of tokens (" " is a token), a commit id a string, "0" the zero id.*)

RemoteRefInfo(name, symref_target, oid) ==
    [name |-> name, symref_target |-> symref_target, oid |-> oid]

BranchRef(b) == <<"refs", "heads">> \o b

\* lines 114-117: the branch asked for, trimmed, none when blank
preferred_ref(preferred_branch) ==
    IF preferred_branch = None \/ Trim(Unwrap(preferred_branch)) = << >> THEN None
    ELSE Some(BranchRef(Trim(Unwrap(preferred_branch))))

\* refs.iter().find(|h| h.name == rf).map(|h| h.oid)
OidOfRef(refs, rf) ==
    IF FirstIndex(refs, LAMBDA h : h.name = rf) = 0 THEN None
    ELSE Some(refs[FirstIndex(refs, LAMBDA h : h.name = rf)].oid)

Pick(rf, oid) == [remote_ref |-> rf, oid |-> oid]

\* lines 118-123: the preferred ref, if the remote lists it
PickPreferred(refs, pr) ==
    IF pr # None /\ OidOfRef(refs, Unwrap(pr)) # None
    THEN Pick(pr, OidOfRef(refs, Unwrap(pr)))
    ELSE Pick(None, None)

\* refs.iter().find(|h| h.name == "HEAD").and_then(|h| h.symref_target.clone())
HeadTarget(refs) ==
    IF FirstIndex(refs, LAMBDA h : h.name = <<"HEAD">>) = 0 THEN None
    ELSE refs[FirstIndex(refs, LAMBDA h : h.name = <<"HEAD">>)].symref_target

\* lines 125-133: the target of the symbolic HEAD, with the id of that ref if listed
PickHead(refs, p) ==
    IF p.remote_ref # None THEN p
    ELSE Pick(HeadTarget(refs),
              IF HeadTarget(refs) = None THEN None ELSE OidOfRef(refs, Unwrap(HeadTarget(refs))))

\* lines 135-143: main, then master
PickMainMaster(refs, p) ==
    IF p.remote_ref # None THEN p
    ELSE IF OidOfRef(refs, BranchRef(<<"main">>)) # None
    THEN Pick(Some(BranchRef(<<"main">>)), OidOfRef(refs, BranchRef(<<"main">>)))
    ELSE IF OidOfRef(refs, BranchRef(<<"master">>)) # None
    THEN Pick(Some(BranchRef(<<"master">>)), OidOfRef(refs, BranchRef(<<"master">>)))
    ELSE p

IsBranchRef(n) == Len(n) >= 3 /\ n[1] = "refs" /\ n[2] = "heads"

\* lines 145-153: without a ref or without a commit id, the first branch
\* whose commit id is not zero
PickAnyBranch(refs, p) ==
    IF (p.remote_ref = None \/ p.oid = None)
          /\ FirstIndex(refs, LAMBDA h : IsBranchRef(h.name) /\ h.oid # "0") # 0
    THEN Pick(Some(refs[FirstIndex(refs, LAMBDA h : IsBranchRef(h.name) /\ h.oid # "0")].name),
              Some(refs[FirstIndex(refs, LAMBDA h : IsBranchRef(h.name) /\ h.oid # "0")].oid))
    ELSE p

\* lines 155-166: the state returned, or the error
HeadResult(p) ==
    IF p.remote_ref = None THEN [ok |-> FALSE, err |-> "Could not detect remote HEAD ref"]
    ELSE IF p.oid = None THEN [ok |-> FALSE, err |-> "Could not detect remote HEAD commit"]
    ELSE [ok |-> TRUE, oid |-> Unwrap(p.oid), remote_ref |-> Unwrap(p.remote_ref),
          branch |-> IF IsBranchRef(Unwrap(p.remote_ref))
                     THEN SubSeq(Unwrap(p.remote_ref), 3, Len(Unwrap(p.remote_ref)))
                     ELSE Unwrap(p.remote_ref)]

\* choose_remote_head_for_url, refs being what remote_refs_for_url returned
choose_remote_head_for_url(refs, preferred_branch) ==
    HeadResult(
      PickAnyBranch(refs,
        PickMainMaster(refs,
          PickHead(refs,
            PickPreferred(refs, preferred_ref(preferred_branch))))))

-----------------------------------------------------------------------------
(* The head specification: choose_remote_head_for_url on any short list of *)
(* refs and any preferred branch.                                          *)

MaxRefs == 3

HeadRefs ==
    {RemoteRefInfo(<<"HEAD">>, t, "c1") :
        t \in {None, Some(BranchRef(<<"main">>)), Some(BranchRef(<<"dev">>)),
               Some(BranchRef(<<"gone">>))}}
      \cup {RemoteRefInfo(BranchRef(<<b>>), None, o) :
               b \in {"main", "master", "dev"}, o \in {"0", "c1"}}
      \cup {RemoteRefInfo(<<"refs", "tags", "v1">>, None, "c2")}

\* a remote lists a ref name once
RefLists ==
    {refs \in UNION {[1..n -> HeadRefs] : n \in 0..MaxRefs} :
        \A i, j \in 1..Len(refs) : refs[i].name = refs[j].name => i = j}

PreferredBranches == {None, Some(<< >>), Some(<<"dev">>), Some(<<" ", "main">>)}

InitHead ==
    /\ FreshStore
    /\ token = FALSE
    /\ now = 0
    /\ clones = {}
    /\ last = InitLast
    /\ EmptyWorld
    /\ IdleRun
    /\ pin \in [refs : RefLists, preferred_branch : PreferredBranches]
    /\ pout = << >>

ChooseRemoteHead ==
    /\ pout = << >>
    /\ pout' = choose_remote_head_for_url(pin.refs, pin.preferred_branch)
    /\ UNCHANGED <<storeVars, worldVars, runVars, clones, last, pin>>

SpecHead == InitHead /\ [][ChooseRemoteHead]_vars

\* the indices at which the remote lists the ref named n
ListedAt(n) == {i \in 1..Len(pin.refs) : pin.refs[i].name = n}

Listed(n) == ListedAt(n) # {}

\* rule 1: the branch asked for
RequestedRef ==
    IF pin.preferred_branch = None \/ Trim(Unwrap(pin.preferred_branch)) = << >> THEN None
    ELSE IF Listed(<<"refs", "heads">> \o Trim(Unwrap(pin.preferred_branch)))
    THEN Some(<<"refs", "heads">> \o Trim(Unwrap(pin.preferred_branch)))
    ELSE None

\* rule 2: the target of the symbolic HEAD, when it is a listed ref
SymbolicHeadRef ==
    IF Listed(<<"HEAD">>)
          /\ pin.refs[Least(ListedAt(<<"HEAD">>))].symref_target # None
          /\ Listed(Unwrap(pin.refs[Least(ListedAt(<<"HEAD">>))].symref_target))
    THEN pin.refs[Least(ListedAt(<<"HEAD">>))].symref_target
    ELSE None

\* rule 3: main, else master
MainMasterRef ==
    IF Listed(<<"refs", "heads", "main">>) THEN Some(<<"refs", "heads", "main">>)
    ELSE IF Listed(<<"refs", "heads", "master">>) THEN Some(<<"refs", "heads", "master">>)
    ELSE None

NonZeroBranches ==
    {i \in 1..Len(pin.refs) :
        /\ Len(pin.refs[i].name) = 3
        /\ SubSeq(pin.refs[i].name, 1, 2) = <<"refs", "heads">>
        /\ pin.refs[i].oid # "0"}

\* rule 4: the first branch with a commit
FirstBranchRef ==
    IF NonZeroBranches # {} THEN Some(pin.refs[Least(NonZeroBranches)].name) ELSE None

\* the ref the precedence gives, None when no rule resolves
ResolvedRef ==
    IF RequestedRef # None THEN RequestedRef
    ELSE IF SymbolicHeadRef # None THEN SymbolicHeadRef
    ELSE IF MainMasterRef # None THEN MainMasterRef
    ELSE FirstBranchRef

\* C28: for every list of remote refs and every preferred branch, the ref
\* resolved is the requested branch if listed, else the listed target of the
\* symbolic HEAD, else main, else master, else the first branch with a
\* non-zero commit id; the resolution fails only when none of these exists.
C28_HeadPrecedence ==
    pout # << >> =>
        IF ResolvedRef = None THEN ~pout.ok
        ELSE /\ pout.ok
             /\ pout.remote_ref = Unwrap(ResolvedRef)
             /\ pout.oid = pin.refs[Least(ListedAt(Unwrap(ResolvedRef)))].oid

\* the symbolic HEAD names a ref the remote does not list
DanglingHead ==
    /\ Listed(<<"HEAD">>)
    /\ pin.refs[Least(ListedAt(<<"HEAD">>))].symref_target # None
    /\ SymbolicHeadRef = None

\* what holds of the code: the precedence, unless the symbolic HEAD dangles
\* and the branch asked for is not listed
C28_PrecedenceWithListedHead ==
    (pout # << >> /\ (RequestedRef # None \/ ~DanglingHead)) =>
        IF ResolvedRef = None THEN ~pout.ok
        ELSE /\ pout.ok
             /\ pout.remote_ref = Unwrap(ResolvedRef)
             /\ pout.oid = pin.refs[Least(ListedAt(Unwrap(ResolvedRef)))].oid

\* the requested branch is not listed and the symbolic HEAD decides
C28_HeadDecides ==
    /\ pout # << >>
    /\ pin.preferred_branch = Some(<<"dev">>)
    /\ RequestedRef = None
    /\ Listed(<<"refs", "heads", "main">>)
    /\ pout.ok
    /\ pout.remote_ref = <<"refs", "heads", "dev">> \/ pout.branch = <<"master">>

\* a dangling HEAD: main is listed and another branch is resolved
C28_MainPassedOver ==
    /\ pout # << >>
    /\ DanglingHead
    /\ RequestedRef = None
    /\ Listed(<<"refs", "heads", "main">>)
    /\ pout.ok
    /\ pout.remote_ref # <<"refs", "heads", "main">>

\* a dangling HEAD: main is listed without a commit and the resolution fails
C28_FailsWithMain ==
    /\ pout # << >>
    /\ DanglingHead
    /\ Listed(<<"refs", "heads", "main">>)
    /\ ~pout.ok

-----------------------------------------------------------------------------
(* The stale-cleanup specification: update_repo and reinstall_repo of one  *)
(* release-mode project whose releases deploy the addons A and B, then A   *)
(* and a DLL, then a DLL alone, as time passes, on a disk that may refuse  *)
(* to let a folder go.                                                     *)

StaleStore == << <<MkUrl("https", GithubCom, <<"o", "n">>), "auto">> >>

StaleWorlds ==
    <<Published("v1", "e1", Asset(Some("a1"), <<"a", ".", "zip">>,
                                  DownloadUrl(GithubCom, "a.zip"), Some(1), None)),
      Published("v2", "e2", Asset(Some("a2"), <<"c", ".", "zip">>,
                                  DownloadUrl(GithubCom, "c.zip"), Some(1), None)),
      Published("v3", "e3", Asset(Some("a3"), <<"b", ".", "dll">>,
                                  DownloadUrl(GithubCom, "b.dll"), Some(1), None))>>

\* the folders whose removal the disk may refuse
Refused == SUBSET {AddonsPath("A"), AddonsPath("B")}

InitStale ==
    /\ repos = BuildRows(StaleStore, {})
    /\ nextId = Cardinality(BuildRows(StaleStore, {})) + 1
    /\ installs = {}
    /\ rate_limits = {}
    /\ token = FALSE
    /\ now = 0
    /\ clones = {}
    /\ last = InitLast
    /\ forge = StaleWorlds[1]
    /\ disk = << >>
    /\ dlcache = << >>
    /\ IdleRun
    /\ NoPure

NextStale ==
    \/ \E id \in Ids : UpdateRepo(id, FALSE, "")
    \/ \E id \in Ids : ReinstallRepo(id, FALSE, "")
    \/ Return
    \/ NextRepo("")
    \/ BuildFetched(PlainMsg("none"))
    \/ PlanReady
    \/ OneRelease(FALSE)
    \/ Downloaded("good")
    \/ Verify
    \/ \E k \in 0..MaxSteps : Install(k)
    \/ \E f \in {"", "list_installs"}, failing \in Refused : CleanupFailing(f, failing)
    \/ \E f \in {"", "clear_installs"} : PersistClear(f)
    \/ \E f \in {"", "add_install"} : PersistAdd(f)
    \/ \E f \in {"", "set_installed_asset_state"} : SetState(f)
    \/ \E i \in 1..Len(StaleWorlds) : Publish(StaleWorlds[i])
    \/ \E e \in installs : UserDeletes(e.path)
    \/ \E t \in ApplyTimes : ap.pc = "idle" /\ Tick(t)

SpecStale == InitStale /\ [][NextStale]_vars

\* apply_one of a release asset has returned Ok
ReleaseApplied ==
    /\ ap.pc = "ok"
    /\ ap.lastok
    /\ ap.plan.mode # "addon_git"

ProducedPaths == {ap.recs[i].path : i \in 1..Len(ap.recs)}

\* the addon targets of the manifest the apply found that it did not produce again
StaleTargets == {e.path : e \in {x \in ap.inst0 : x.kind = "addon"}} \ ProducedPaths

ManifestOfRecords ==
    Db_list_installs(installs, ap.plan.repo_id)
        = {[repo_id |-> ap.plan.repo_id, path |-> ap.recs[i].path, kind |-> ap.recs[i].kind] :
              i \in 1..Len(ap.recs)}

\* C29: after a successful release-mode apply every addon-kind path of the
\* previous manifest that the new install did not produce is gone from the
\* disk, every path the new install produced is there, and the manifest is
\* exactly the set of records of the new install.
C29_StaleCleanup ==
    ReleaseApplied =>
        /\ StaleTargets \cap DOMAIN disk = {}
        /\ ProducedPaths \subseteq DOMAIN disk
        /\ ManifestOfRecords

\* what holds whatever the disk does: the new targets are in place and the
\* manifest is that of the new install
C29_ManifestExact ==
    ReleaseApplied => (ProducedPaths \subseteq DOMAIN disk /\ ManifestOfRecords)

\* an update dropped the addon B and its folder is gone
C29_StaleRemoved ==
    /\ ReleaseApplied
    /\ AddonsPath("B") \in StaleTargets
    /\ AddonsPath("B") \notin DOMAIN disk
    /\ AddonsPath("A") \in ProducedPaths

\* an update dropped the addon B, its folder could not be removed, and the
\* apply returned Ok with the folder on disk and in no manifest
C29_StaleLeft ==
    /\ ReleaseApplied
    /\ AddonsPath("B") \in StaleTargets
    /\ AddonsPath("B") \in DOMAIN disk
    /\ \A e \in installs : e.path # AddonsPath("B")

-----------------------------------------------------------------------------
(* install.rs update_dlls_txt: the DLL registration file dlls.txt.  The     *)
(* file is its text, a sequence of characters; ".dll" stands for the four   *)
(* characters of the extension.                                             *)

\* str::lines: the text is split at "\n", a "\r" before the "\n" belongs to
\* the line ending, and the last line needs no line ending
RECURSIVE StrLines(_)
StrLines(s) ==
    IF s = << >> THEN << >>
    ELSE IF \E i \in 1..Len(s) : s[i] = "\n"
    THEN LET i == CHOOSE k \in 1..Len(s) : s[k] = "\n" /\ \A j \in 1..(k - 1) : s[j] # "\n"
             l == SubSeq(s, 1, i - 1)
         IN  <<IF l # << >> /\ l[Len(l)] = "\r" THEN SubSeq(l, 1, Len(l) - 1) ELSE l>>
                 \o StrLines(SubSeq(s, i + 1, Len(s)))
    ELSE <<s>>

\* lines.join("\n")
RECURSIVE JoinLines(_)
JoinLines(ls) ==
    IF ls = << >> THEN << >>
    ELSE IF Len(ls) = 1 THEN ls[1]
    ELSE ls[1] \o <<"\n">> \o JoinLines(Tail(ls))

\* lines 299-307: the line without surrounding white space, without one
\* leading '#' and the white space after it
DllsLineRest(line) ==
    IF StartsWithChars(TrimChars(line), <<"#">>)
    THEN TrimChars(Tail(TrimChars(line)))
    ELSE TrimChars(line)

\* lines 298-313: whether the loop over the lines stops at this line for dll
DllsLineMatches(line, dll) ==
    /\ TrimChars(line) # << >>
    /\ LowerChars(DllsLineRest(line)) = LowerChars(dll)

\* the body of the loop over dll_names (lines 295-319): the first line that
\* names dll becomes dll, and without such a line dll is pushed
DllsTxtOne(lines, dll) ==
    IF \E i \in 1..Len(lines) : DllsLineMatches(lines[i], dll)
    THEN [lines EXCEPT ![Least({i \in 1..Len(lines) : DllsLineMatches(lines[i], dll)})] = dll]
    ELSE Append(lines, dll)

RECURSIVE DllsTxtAll(_, _)
DllsTxtAll(lines, dll_names) ==
    IF dll_names = << >> THEN lines
    ELSE DllsTxtAll(DllsTxtOne(lines, dll_names[1]), Tail(dll_names))

\* install::update_dlls_txt for the text read_to_string gave (empty when the
\* file is absent or cannot be read, unwrap_or_default): the text written,
\* None when nothing is written
update_dlls_txt(existing, dll_names) ==
    IF dll_names = << >> THEN None
    ELSE Some(JoinLines(DllsTxtAll(StrLines(existing), dll_names)) \o <<"\n">>)

-----------------------------------------------------------------------------
(* The registration-file specification: update_dlls_txt is applied twice   *)
(* with the same names to a dlls.txt that is absent or holds up to MaxLines *)
(* lines; a file that is there may fail to be read (it is not valid UTF-8,  *)
(* or the read fails).                                                      *)

MaxLines == 2
MaxNames == 2

\* file names with the extension dll, as detect_dlls and the asset name give
\* them; the last two begin with '#' and with a blank
DllNames == {<<"a", ".dll">>, <<"A", ".dll">>, <<"b", ".dll">>,
             <<"#", "a", ".dll">>, <<" ", "b", ".dll">>}

DllsLines == {<<"a", ".dll">>, <<"A", ".dll">>, <<"#", "a", ".dll">>, <<"#", " ", "A", ".dll">>,
              <<" ", "a", ".dll", " ">>, <<"b", ".dll">>, <<"#", "b", ".dll">>,
              <<"#", " ", "n", "o", "t", "e">>, << >>}

SeqsUpTo(S, n) == UNION {[1..k -> S] : k \in 0..n}

\* the text of the lines ls, each ended by eol, the last one only if final
RECURSIVE TextOf(_, _, _)
TextOf(ls, eol, final) ==
    IF ls = << >> THEN << >>
    ELSE IF Len(ls) = 1 THEN ls[1] \o (IF final THEN eol ELSE << >>)
    ELSE ls[1] \o eol \o TextOf(Tail(ls), eol, final)

DllsTexts ==
    {TextOf(ls, eol, final) : ls \in SeqsUpTo(DllsLines, MaxLines),
                              eol \in {<<"\n">>, <<"\r", "\n">>}, final \in BOOLEAN}

InitDlls ==
    /\ FreshStore
    /\ token = FALSE
    /\ now = 0
    /\ clones = {}
    /\ last = InitLast
    /\ EmptyWorld
    /\ IdleRun
    /\ pin \in [file : {None} \cup {Some(t) : t \in DllsTexts},
                names : SeqsUpTo(DllNames, MaxNames)]
    /\ pout = << >>

\* dlls.txt before the next application
DllsFile == IF pout = << >> THEN pin.file ELSE pout[Len(pout)].file

\* one call of update_dlls_txt(wow_dir, pin.names); the claim applies it twice
UpdateDllsTxt(read_ok) ==
    /\ Len(pout) < 2
    /\ LET existing == IF DllsFile # None /\ read_ok THEN Unwrap(DllsFile) ELSE << >>
           written == update_dlls_txt(existing, pin.names)
       IN  pout' = Append(pout, [file |-> IF written = None THEN DllsFile ELSE written,
                                 read |-> IF DllsFile = None THEN "absent"
                                          ELSE IF read_ok THEN "ok" ELSE "failed"])
    /\ UNCHANGED <<storeVars, worldVars, runVars, clones, last, pin>>

NextDlls == \E read_ok \in BOOLEAN : UpdateDllsTxt(read_ok)

SpecDlls == InitDlls /\ [][NextDlls]_vars

\* the lines of a dlls.txt
FileLines(f) == IF f = None THEN << >> ELSE StrLines(Unwrap(f))

\* a line is commented when '#' is its first character after white space
Commented(line) == StartsWithChars(TrimChars(line), <<"#">>)

\* the line names the DLL n, commented or not, letter case aside
LineNames(line, n) ==
    /\ TrimChars(line) # << >>
    /\ LowerChars(IF Commented(line) THEN TrimChars(Tail(TrimChars(line))) ELSE TrimChars(line))
          = LowerChars(n)

CountNaming(ls, n) == Cardinality({i \in 1..Len(ls) : LineNames(ls[i], n)})

\* the line names no DLL of pin.names
NamesOther(line) ==
    /\ TrimChars(line) # << >>
    /\ \A k \in 1..Len(pin.names) : ~LineNames(line, pin.names[k])

\* after the first application every name is on an uncommented line, a name
\* that was listed is on as many lines as before, and the lines naming other
\* DLLs are those of before, in order
FirstApplication ==
    (Len(pout) >= 1 /\ pin.names # << >>) =>
        /\ \A k \in 1..Len(pin.names) :
              /\ \E i \in 1..Len(FileLines(pout[1].file)) :
                    /\ LineNames(FileLines(pout[1].file)[i], pin.names[k])
                    /\ ~Commented(FileLines(pout[1].file)[i])
              /\ CountNaming(FileLines(pin.file), pin.names[k]) >= 1
                    => CountNaming(FileLines(pout[1].file), pin.names[k])
                          <= CountNaming(FileLines(pin.file), pin.names[k])
        /\ SelectSeq(FileLines(pout[1].file), NamesOther)
              = SelectSeq(FileLines(pin.file), NamesOther)

\* the second application leaves the file of the first
SecondApplication == Len(pout) = 2 => pout[2].file = pout[1].file

\* C30: after update_dlls_txt(names) every name of names is on an uncommented
\* line; a name already listed, commented or not and whatever its letter
\* case, is re-enabled in place and not added again, so that no more lines
\* name it than before; the lines naming other DLLs are preserved in order;
\* and applying the same update twice gives the file of applying it once.
C30_DllsTxtMaintained == FirstApplication /\ SecondApplication

\* a name that dlls.txt can list: not empty, no white space around it and
\* no '#' in front
PlainName(n) == n # << >> /\ TrimChars(n) = n /\ n[1] # "#"

\* what holds when every read of an existing file succeeded and the names
\* are plain
C30_ReadablePlain ==
    ((\A k \in 1..Len(pin.names) : PlainName(pin.names[k]))
        /\ (\A j \in 1..Len(pout) : pout[j].read # "failed"))
            => C30_DllsTxtMaintained

\* a commented line naming a DLL in another letter case was re-enabled in
\* place, before a line that names another DLL
C30_Reenabled ==
    /\ Len(pout) = 2
    /\ pout[1].read = "ok"
    /\ pin.names = << <<"a", ".dll">> >>
    /\ FileLines(pin.file) = << <<"#", " ", "A", ".dll">>, <<"b", ".dll">> >>
    /\ FileLines(pout[2].file) = << <<"a", ".dll">>, <<"b", ".dll">> >>

\* the file could not be read and the line naming another DLL is lost
C30_OthersLost ==
    /\ Len(pout) >= 1
    /\ pout[1].read = "failed"
    /\ pin.names = << <<"a", ".dll">> >>
    /\ FileLines(pin.file) = << <<"b", ".dll">> >>
    /\ FileLines(pout[1].file) = << <<"a", ".dll">> >>

\* a name that begins with '#' is written as a commented line and added
\* again by the second application
C30_AddedAgain ==
    /\ Len(pout) = 2
    /\ pout[1].read # "failed" /\ pout[2].read # "failed"
    /\ pin.names = << <<"#", "a", ".dll">> >>
    /\ Len(FileLines(pout[2].file)) = Len(FileLines(pout[1].file)) + 1

-----------------------------------------------------------------------------
(* URLs as text.  A text is a sequence of tokens: the scheme, "://", the   *)
(* labels of the host, and "/" before every path segment; blanks may       *)
(* surround it.                                                            *)

\* the path segments of the text after the host, as Url::path_segments
\* gives them: what follows each "/", empty when another "/" or the end
\* follows
RECURSIVE SplitPath(_)
SplitPath(p) ==
    IF p = << >> THEN << >>
    ELSE IF Len(p) >= 2 /\ p[2] # "/" THEN <<p[2]>> \o SplitPath(SubSeq(p, 3, Len(p)))
    ELSE <<"">> \o SplitPath(Tail(p))

\* the number of tokens of the authority: up to the first "/"
HostLen(rest) ==
    IF \E i \in 1..Len(rest) : rest[i] = "/"
    THEN (CHOOSE i \in 1..Len(rest) : rest[i] = "/" /\ \A j \in 1..(i - 1) : rest[j] # "/") - 1
    ELSE Len(rest)

\* input.trim() and Url::parse for an http(s) URL: scheme and host come out
\* in lower case
ParseUrl(text) ==
    IF Len(Trim(text)) < 3 \/ Trim(text)[2] # "://" \/ Lower(Trim(text)[1]) \notin {"http", "https"}
    THEN InvalidUrl
    ELSE LET rest == SubSeq(Trim(text), 3, Len(Trim(text)))
         IN  MkUrl(Lower(Trim(text)[1]), LowerSeq(SubSeq(rest, 1, HostLen(rest))),
                   SplitPath(SubSeq(rest, HostLen(rest) + 1, Len(rest))))

RECURSIVE PathText(_)
PathText(segs) == IF segs = << >> THEN << >> ELSE <<"/", segs[1]>> \o PathText(Tail(segs))

\* format!("{scheme}://{host}/{project_path}"): the stored url column
UrlText(u) == <<u.scheme, "://">> \o u.host \o PathText(u.segs)

-----------------------------------------------------------------------------
(* The detection specification: detect_repo on a base URL, on the URL the  *)
(* user supplied, and on the canonical URL of the result, as every later   *)
(* pass does with the stored url.                                          *)

DetectHosts == {GithubCom, GitlabCom, CodebergOrg, SelfHosted, <<"GitHub", "com">>}
DetectOwners == {"o", "O", "-"}
DetectNames == {"n", "N", "n.git", "tags", "Tags", "releases", "latest"}

DetectPaths ==
    {<<o, n>> : o \in DetectOwners, n \in DetectNames} \cup {<<"g", "s", "n">>, <<"o">>}

\* what the user may have left behind the project's URL
DetectSuffixes ==
    {<< >>, <<"/", "releases">>, <<"/", "releases", "/", "latest">>, <<"/", "tags">>,
     <<"/", "-", "/", "releases">>, <<"/", "-", "/", "tags">>,
     <<"/", "Releases">>, <<"/">>}

InitDetect ==
    /\ FreshStore
    /\ token = FALSE
    /\ now = 0
    /\ clones = {}
    /\ last = InitLast
    /\ EmptyWorld
    /\ IdleRun
    /\ pin \in [scheme : {"https", "http", "HTTPS"}, host : DetectHosts, path : DetectPaths,
                suffix : DetectSuffixes, padded : BOOLEAN]
    /\ pout = << >>

\* B
BaseText == <<pin.scheme, "://">> \o pin.host \o PathText(pin.path)

\* the URL supplied
InputText ==
    IF pin.padded THEN <<" ">> \o BaseText \o pin.suffix \o <<" ">> ELSE BaseText \o pin.suffix

DetectBase ==
    /\ pout = << >>
    /\ pout' = <<detect_repo(ParseUrl(BaseText))>>
    /\ UNCHANGED <<storeVars, worldVars, runVars, clones, last, pin>>

DetectInput ==
    /\ Len(pout) = 1
    /\ pout' = Append(pout, detect_repo(ParseUrl(InputText)))
    /\ UNCHANGED <<storeVars, worldVars, runVars, clones, last, pin>>

\* build_update_plan_for_repo line 722: detect_repo(&r.url), r.url being the
\* canonical URL add_repo stored
DetectStored ==
    /\ Len(pout) = 2
    /\ pout[2].ok
    /\ pout' = Append(pout, detect_repo(ParseUrl(UrlText(pout[2].canonical_url))))
    /\ UNCHANGED <<storeVars, worldVars, runVars, clones, last, pin>>

NextDetect == DetectBase \/ DetectInput \/ DetectStored

SpecDetect == InitDetect /\ [][NextDetect]_vars

\* B is scheme://host/owner/name as Url::parse prints it, and the URL
\* supplied is B or B with one of the five suffixes
BaseAndSuffix ==
    /\ Len(pin.path) = 2
    /\ pin.scheme = Lower(pin.scheme) /\ pin.host = LowerSeq(pin.host)
    /\ ~pin.padded
    /\ pin.suffix \in {<< >>, <<"/", "releases">>, <<"/", "releases", "/", "latest">>,
                       <<"/", "tags">>, <<"/", "-", "/", "releases">>, <<"/", "-", "/", "tags">>}

\* B without a trailing ".git" of the name
BaseCanonical == MkUrl(pin.scheme, pin.host, <<pin.path[1], StripGit(pin.path[2])>>)

SameProject(a, b) ==
    /\ a.ok /\ b.ok
    /\ a.host = b.host /\ a.owner = b.owner /\ a.name = b.name
    /\ a.canonical_url = b.canonical_url

\* C31: for every base URL B = scheme://host/owner/name, detect_repo gives
\* the same host, owner, name and canonical URL, the latter equal to B
\* without a trailing ".git" of the name, for B, B/releases,
\* B/releases/latest, B/tags, B/-/releases and B/-/tags.
C31_UrlNormalized ==
    (Len(pout) >= 2 /\ BaseAndSuffix) =>
        /\ SameProject(pout[1], pout[2])
        /\ pout[2].canonical_url = BaseCanonical
        /\ pout[2].host = pin.host /\ pout[2].owner = <<pin.path[1]>>
        /\ pout[2].name = StripGit(pin.path[2])

\* the same without the projects named "tags"
C31_NotNamedTags ==
    (Lower(pin.path[Len(pin.path)]) # "tags") => C31_UrlNormalized

\* B/-/tags of a project named "tags" is refused
C31_TagsRefused ==
    /\ Len(pout) >= 2
    /\ BaseAndSuffix
    /\ pin.path[2] = "tags"
    /\ pin.suffix = <<"/", "-", "/", "tags">>
    /\ pout[1].ok
    /\ ~pout[2].ok

\* B/-/releases of a project whose name ends with ".git" gives B without it
C31_Normalized ==
    /\ Len(pout) >= 2
    /\ BaseAndSuffix
    /\ pin.path = <<"o", "n.git">>
    /\ pin.suffix = <<"/", "-", "/", "releases">>
    /\ pout[2].ok
    /\ pout[2].canonical_url = MkUrl(pin.scheme, pin.host, <<"o", "n">>)

\* the results of detect_repo a and b name the same project of the same forge
SameDetection(a, b) ==
    /\ a.ok /\ b.ok
    /\ a.kind = b.kind /\ a.host = b.host /\ a.owner = b.owner /\ a.name = b.name
    /\ a.project_path = b.project_path

\* C35: for every URL u that detect_repo accepts, detect_repo of the
\* canonical URL of the result succeeds and gives the same forge kind, host,
\* owner, name and project path as detect_repo(u).
C35_DetectionStable == Len(pout) = 3 => SameDetection(pout[2], pout[3])

\* the hosts whose forge detect_repo knows by name
KnownHost(h) == h \in {GithubCom, GitlabCom, CodebergOrg}

\* what holds: on github.com, gitlab.com and codeberg.org, and on any other
\* host when the URL supplied has no "/-/"
C35_StableWithoutHeuristic ==
    (KnownHost(LowerSeq(pin.host)) \/ ~PathContainsDash(ParseUrl(InputText).segs))
        => C35_DetectionStable

\* a project of a self-hosted forge added by the URL of its releases page,
\* /-/releases, is a GitLab project when added and a Gitea project on every
\* later pass
C35_DialectChanges ==
    /\ Len(pout) = 3
    /\ pin.host = SelfHosted
    /\ pin.path = <<"o", "n">>
    /\ pin.suffix = <<"/", "-", "/", "releases">>
    /\ pout[2].ok /\ pout[2].kind = "GitLab"
    /\ pout[3].ok /\ pout[3].kind = "Gitea"

\* a project in a subgroup of such a forge comes back with another owner
\* and name
C35_ProjectChanges ==
    /\ Len(pout) = 3
    /\ pin.host = SelfHosted
    /\ pin.path = <<"g", "s", "n">>
    /\ pout[2].ok /\ pout[2].project_path = <<"g", "s", "n">>
    /\ pout[3].ok /\ pout[3].project_path = <<"g", "s">>

\* a URL given with blanks, an upper-case host and a suffix is detected
\* again as the same project
C35_StableCase ==
    /\ Len(pout) = 3
    /\ pin.host = <<"GitHub", "com">>
    /\ pin.padded
    /\ pin.suffix = <<"/", "releases", "/", "latest">>
    /\ SameDetection(pout[2], pout[3])

-----------------------------------------------------------------------------
(* install.rs addon_folder_name_from_toc on the stems in the order         *)
(* read_dir yields the descriptor files.                                   *)

\* how many entries of normalized are key, letter case aside
VotesOf(normalized, key) ==
    Cardinality({i \in 1..Len(normalized) : LowerChars(normalized[i]) = key})

\* lines 482-503: counts by lower-cased name, then the key with the highest
\* count and, among those, the smallest
MostCommonOf(normalized) ==
    CHOOSE key \in {LowerChars(normalized[i]) : i \in 1..Len(normalized)} :
        \A other \in {LowerChars(normalized[i]) : i \in 1..Len(normalized)} \ {key} :
            \/ VotesOf(normalized, key) > VotesOf(normalized, other)
            \/ VotesOf(normalized, key) = VotesOf(normalized, other) /\ CharsLess(key, other)

\* lines 452-503, for the non-empty stems in read_dir order
FolderNameOf(stems, dir_name, is_root) ==
    LET normalized == [i \in 1..Len(stems) |-> normalize_toc_stem(stems[i])]
    IN  IF stems = << >> THEN None
        ELSE IF /\ ~is_root
                /\ dir_name # << >>
                /\ \E i \in 1..Len(stems) :
                      \/ LowerChars(stems[i]) = LowerChars(dir_name)
                      \/ LowerChars(normalized[i]) = LowerChars(dir_name)
        THEN Some(dir_name)
        ELSE IF \A i \in 1..Len(stems) : LowerChars(normalized[i]) = LowerChars(normalized[1])
        THEN Some(normalized[1])
        ELSE IF is_root THEN None
        ELSE Some(MostCommonOf(normalized))

-----------------------------------------------------------------------------
(* The folder-name specification: one directory with up to MaxTocs         *)
(* descriptor files, named twice: for an order in which read_dir may yield *)
(* the files, and for the opposite order.                                  *)

MaxTocs == 3

TocStems ==
    {<<"A", "b">>, <<"a", "b">>, <<"A", "b", "-", "t", "b", "c">>, <<"a", "b", "_", "e", "r", "a">>,
     <<"C", "d">>, <<"C", "d", "-", "t", "b", "c">>}

TocDirNames == {<<"A", "B">>, <<"C", "d">>, <<"X">>}

\* the sequences of up to n different elements of S
DistinctSeqs(S, n) ==
    {q \in UNION {[1..k -> S] : k \in 1..n} : \A i, j \in 1..Len(q) : i # j => q[i] # q[j]}

InitFolder ==
    /\ FreshStore
    /\ token = FALSE
    /\ now = 0
    /\ clones = {}
    /\ last = InitLast
    /\ EmptyWorld
    /\ IdleRun
    /\ pin \in [stems : DistinctSeqs(TocStems, MaxTocs), dir_name : TocDirNames, is_root : BOOLEAN]
    /\ pout = << >>

\* addon_folder_name_from_toc(dir, scan_root), read_dir yielding pin.stems
AddonFolderName ==
    /\ pout = << >>
    /\ pout' = <<FolderNameOf(pin.stems, pin.dir_name, pin.is_root)>>
    /\ UNCHANGED <<storeVars, worldVars, runVars, clones, last, pin>>

\* the same call, read_dir yielding the same files in the opposite order
AddonFolderNameAgain ==
    /\ Len(pout) = 1
    /\ pout' = Append(pout, FolderNameOf([i \in 1..Len(pin.stems) |-> pin.stems[Len(pin.stems) + 1 - i]],
                                         pin.dir_name, pin.is_root))
    /\ UNCHANGED <<storeVars, worldVars, runVars, clones, last, pin>>

NextFolder == AddonFolderName \/ AddonFolderNameAgain

SpecFolder == InitFolder /\ [][NextFolder]_vars

TocSet == {pin.stems[i] : i \in 1..Len(pin.stems)}

\* the normalized descriptor names
TocNorms == {normalize_toc_stem(s) : s \in TocSet}

\* (1) the directory's name is, letter case aside, a raw or suffix-stripped
\* descriptor name
DirMatches ==
    \E s \in TocSet : LowerChars(pin.dir_name) \in {LowerChars(s), LowerChars(normalize_toc_stem(s))}

\* (2) the descriptors normalize to one name, letter case aside
OneNorm == Cardinality({LowerChars(n) : n \in TocNorms}) = 1

\* the name the four rules give for the set of descriptors: res is a result
\* the rules allow
RulesAllow(res) ==
    IF DirMatches THEN res = Some(pin.dir_name)
    ELSE IF OneNorm THEN res # None /\ Unwrap(res) \in TocNorms
    ELSE IF pin.is_root THEN res = None
    ELSE /\ res # None
         /\ Unwrap(res) \in TocNorms
         /\ LowerChars(Unwrap(res)) = MostCommon(TocSet)

\* C32: the name is the directory's own name verbatim if it equals, letter
\* case aside, a raw or suffix-stripped descriptor name; else the common
\* normalized name if all descriptors normalize identically; else no name at
\* the scan root; else the most frequent normalized name, ties broken
\* lexicographically, which is one of the descriptors' normalized names; and
\* it depends on the set of descriptor names and the directory name only,
\* not on the order of enumeration.
C32_FolderNaming ==
    /\ Len(pout) >= 1 => RulesAllow(pout[1])
    /\ Len(pout) = 2 => pout[2] = pout[1]

LowerOpt(o) == IF o = None THEN None ELSE Some(LowerChars(Unwrap(o)))

\* what holds: below the scan root the four rules give the name up to the
\* case of its letters, at the scan root rules (2) and (3) do, and two
\* orders of enumeration give names that differ in letter case at most
C32_UpToCase ==
    /\ Len(pout) >= 1 =>
          IF ~pin.is_root /\ DirMatches THEN pout[1] = Some(pin.dir_name)
          ELSE IF OneNorm
          THEN pout[1] # None /\ LowerChars(Unwrap(pout[1])) \in {LowerChars(n) : n \in TocNorms}
          ELSE IF pin.is_root THEN pout[1] = None
          ELSE pout[1] = Some(MostCommon(TocSet))
    /\ Len(pout) = 2 => LowerOpt(pout[2]) = LowerOpt(pout[1])

\* two orders of the same descriptors give two names
C32_OrderDecides ==
    /\ Len(pout) = 2
    /\ TocSet = {<<"A", "b">>, <<"a", "b", "_", "e", "r", "a">>}
    /\ pin.dir_name = <<"X">>
    /\ pout[1] = Some(<<"A", "b">>)
    /\ pout[2] = Some(<<"a", "b">>)

\* at the scan root the directory's own name is not kept
C32_RootNameNotKept ==
    /\ Len(pout) >= 1
    /\ pin.is_root
    /\ pin.dir_name = <<"A", "B">>
    /\ DirMatches
    /\ pout[1] # Some(pin.dir_name)

\* the most frequent name is returned in lower case, which no descriptor has
C32_LowerCased ==
    /\ Len(pout) >= 1
    /\ ~pin.is_root /\ ~DirMatches /\ ~OneNorm
    /\ pout[1] = Some(<<"c", "d">>)
    /\ <<"c", "d">> \notin TocNorms

\* the directory's name is kept verbatim below the scan root
C32_DirNameKept ==
    /\ Len(pout) = 2
    /\ ~pin.is_root
    /\ pin.dir_name = <<"A", "B">>
    /\ TocSet = {<<"a", "b", "_", "e", "r", "a">>, <<"C", "d">>}
    /\ pout[1] = Some(<<"A", "B">>)

-----------------------------------------------------------------------------
(* The import specification: import_existing_addon_git_repos between       *)
(* add_repo, remove_repo and clones the user makes or deletes by hand.     *)

\* besides the two clones of one project: a clone of another project and
\* a clone without addon folders
ImportCatalog ==
    CloneCatalog \cup
    {[folder |-> "C", remote |-> MkUrl("https", GitlabCom, <<"o", "n">>),
      branch |-> "main", oid |-> "c1", addons |-> {"C"}],
     [folder |-> "D", remote |-> MkUrl("https", CodebergOrg, <<"o", "n">>),
      branch |-> "main", oid |-> "c1", addons |-> {}]}

\* the loop up to the first clone it imports: the store when add_repo or
\* the first add_install of that clone fails and '?' ends the call
RECURSIVE ImportLoopFailing(_, _, _)
ImportLoopFailing(order, st, fault) ==
    IF order = << >> THEN st
    ELSE IF ImportClone(order[1], detect_repo(order[1].remote), st) = st
    THEN ImportLoopFailing(Tail(order), st, fault)
    ELSE IF fault = "add_repo" THEN st
    ELSE [st EXCEPT !.rows = ImportClone(order[1], detect_repo(order[1].remote), st).rows,
                    !.nid = ImportClone(order[1], detect_repo(order[1].remote), st).nid]

\* Engine::import_existing_addon_git_repos(wow_dir), read_dir yielding the
\* clones in some order; last records the result and the clones it saw
ImportCall(fault) ==
    /\ \E order \in Orders(clones) :
         \E st \in {IF fault = "list_repos" THEN ImportStart
                    ELSE IF fault = "" THEN ImportLoop(order, ImportStart)
                    ELSE ImportLoopFailing(order, ImportStart, fault)} :
            /\ st.nid <= MaxRepos + 1
            /\ fault \in {"add_repo", "add_install"} => ImportLoop(order, ImportStart) # ImportStart
            /\ repos' = st.rows
            /\ nextId' = st.nid
            /\ installs' = st.inst
            /\ last' = [tick |-> 1 - last.tick, op |-> "import", ok |-> fault = "",
                        imported |-> st.imported, clones |-> clones]
    /\ UNCHANGED <<rate_limits, clones, worldVars, runVars, pureVars>>

\* the user deletes a clone from Interface/AddOns
UserDeletesClone(c) ==
    /\ c \in clones
    /\ clones' = clones \ {c}
    /\ UNCHANGED <<storeVars, last, worldVars, runVars, pureVars>>

NextImport ==
    \/ AddRepo(MkUrl("https", GithubCom, <<"o", "n">>), "addon", None)
    \/ \E id \in Ids : RemoveRepo(id, TRUE, FALSE, "")
    \/ \E c \in ImportCatalog : UserClones(c)
    \/ \E c \in ImportCatalog : UserDeletesClone(c)
    \/ \E fault \in {"", "list_repos", "add_repo", "add_install"} : ImportCall(fault)

SpecImport == Init /\ [][NextImport]_vars

\* the step is a call of import_existing_addon_git_repos
ImportStep == last'.op = "import" /\ last'.tick # last.tick

RowKey(r) == repo_key(r.host, r.owner, r.name)

\* the projects the step created
Created == repos' \ repos

\* C33: a call of the import creates git-mode projects only, each for a
\* clone found under the addons root whose detected (host, owner, name) was
\* not tracked, at most one per identity; it changes no tracked project and
\* no manifest entry of one; and a second call with an unchanged filesystem
\* and store imports 0 projects and leaves the store unchanged.
C33_Step ==
    ImportStep =>
        /\ repos \subseteq repos'
        /\ {e \in installs' : \E r \in repos : r.id = e.repo_id} = installs
        /\ \A r \in Created :
              /\ r.mode = "addon_git"
              /\ \E c \in clones : detect_repo(c.remote).ok
                                     /\ Identity(r) = <<detect_repo(c.remote).host,
                                                        detect_repo(c.remote).owner,
                                                        detect_repo(c.remote).name>>
              /\ \A old \in repos : Identity(old) # Identity(r) /\ RowKey(old) # RowKey(r)
              /\ \A other \in Created \ {r} : RowKey(other) # RowKey(r)
        /\ last'.ok => last'.imported = Cardinality(Created)
        /\ (last.op = "import" /\ last.ok /\ last.clones = clones) =>
              /\ last'.imported = 0
              /\ UNCHANGED <<repos, nextId, installs>>

C33_ImportIdempotent == [][C33_Step]_vars

\* a second call right after one that imported a project, the clones being
\* the same two clones of one project
C33_Witness ==
    /\ last.op = "import" /\ last.ok
    /\ last.imported = 0
    /\ last.clones = clones
    /\ Cardinality(clones) = 2
    /\ \E r \in repos : r.mode = "addon_git" /\ r.installed_asset_name # None
    /\ \A c \in clones : \E r \in repos : RowKey(r) = repo_key(detect_repo(c.remote).host,
                                                              detect_repo(c.remote).owner,
                                                              detect_repo(c.remote).name)

\* one call imported two projects
C33_TwoImported ==
    /\ last.op = "import" /\ last.ok
    /\ last.imported = 2

-----------------------------------------------------------------------------
(* The masking specification: one release-mode project on github.com with  *)
(* a known install, checked by check passes and updated by update_repo and *)
(* apply_updates, while the forge keeps its latest release and every       *)
(* download of an asset fails, so that nothing is ever installed: no       *)
(* action below writes the forge, the disk, the manifest or the installed  *)
(* state of the row.                                                       *)

MaskKinds == {"applied", "last_version_only"}

InitMask ==
    /\ \E kind \in MaskKinds, etag \in RetryTags :
          repos = {RetryRow(r, kind, etag) : r \in BuildRows(RetryStore, {})}
    /\ nextId = 2
    /\ \E manifest \in {"none", "on_disk", "missing"} :
          /\ installs = IF manifest = "none" THEN {} ELSE {RetryEntry}
          /\ disk = IF manifest = "on_disk"
                    THEN (AddonsPath("A") :> [kind |-> "addon",
                                              aid |-> AssetId("a1", EmptyUrl),
                                              branch |-> None])
                    ELSE << >>
    /\ rate_limits = {}
    /\ token = FALSE
    /\ now = 0
    /\ clones = {}
    /\ last = InitLast
    /\ forge \in {ForgeV1, ForgeV2}
    /\ dlcache = << >>
    /\ IdleRun
    /\ NoPure

NextMask ==
    \/ \E wow \in BOOLEAN : StartPass(wow, "")
    \/ \E id \in Ids : TaskStart(id, "")
    \/ \E id \in Ids : \E fault \in {PlainMsg("none"), PlainMsg("request_failed")} :
          TaskFetched(id, fault)
    \/ BatchJoin
    \/ FinishPass
    \/ \E t \in Times : Tick(t)
    \/ ApplyUpdates(FALSE, "")
    \/ \E id \in Ids : UpdateRepo(id, FALSE, "")
    \/ NextRepo("")
    \/ BuildFetched(PlainMsg("none"))
    \/ PlanReady
    \/ OneRelease(FALSE)
    \/ Downloaded("fail")
    \/ Return

SpecMask == InitMask /\ [][NextMask]_vars

\* the build t ended with a plan that reports an available update
Discovered(t) ==
    /\ t.pc = "done"
    /\ t.r.enabled
    /\ t.r.mode # "addon_git"
    /\ ~NoKnownInstall(t.r)
    /\ t.plan.error = None
    /\ t.plan.asset_url # EmptyUrl

\* the build u, of the row of t with the installed state t saw, ended
\* with a plan without an error
BuiltAgain(t, u) ==
    /\ u.pc = "done"
    /\ u.r.id = t.r.id
    /\ InstalledState(u.r) = InstalledState(t.r)
    /\ u.plan.error = None

\* update_repo or apply_updates has the plan of its row in hand, after the
\* last check pass returned its plans (a pass and an apply never overlap)
PlanAfterPass == pass.status = "ok" /\ ap.pc = "build" /\ ap.t.pc = "done"

\* C34: once a plan of a check pass has reported an update for an enabled
\* release-mode project with a known install, and neither the forge's
\* latest release nor the installed state and the files of the project
\* have changed, the plan update_repo or apply_updates builds for the
\* project has a non-empty asset_url as well.
C34_NeverMasked ==
    PlanAfterPass =>
        \A id \in DOMAIN task :
            (Discovered(task[id]) /\ BuiltAgain(task[id], ap.t))
                => ap.t.plan.asset_url # EmptyUrl

\* the later plan was built from a release the forge or the release cache
\* returned, and not from a "not modified" answer
FromRelease(u) == u.got # << >> /\ u.got[Len(u.got)] = "release"

\* C34, for a later plan built from a fetched release: it reports the update
C34_FetchedNotMasked ==
    PlanAfterPass =>
        \A id \in DOMAIN task :
            (Discovered(task[id]) /\ BuiltAgain(task[id], ap.t) /\ FromRelease(ap.t))
                => ap.t.plan.asset_url # EmptyUrl

\* the check pass reported the update, stored the tag of the answer, and
\* update_repo, sending that tag, is told "not modified" and has nothing to do
C34_Masked ==
    /\ PlanAfterPass
    /\ ap.op = "update_repo"
    /\ \E id \in DOMAIN task :
          /\ Discovered(task[id])
          /\ BuiltAgain(task[id], ap.t)
          /\ task[id].plan.latest = "v2"
          /\ ap.t.r.etag = Some("e2")
          /\ ap.t.plan.not_modified
          /\ ap.t.plan.asset_url = EmptyUrl

\* the same outside the cache window: the forge itself answers "not modified"
C34_MaskedByForge ==
    /\ C34_Masked
    /\ ap.t.calls = 1

\* a later plan that was built from a fetched release reports the update
C34_StillReported ==
    /\ PlanAfterPass
    /\ \E id \in DOMAIN task :
          /\ Discovered(task[id])
          /\ BuiltAgain(task[id], ap.t)
          /\ FromRelease(ap.t)
          /\ ap.t.plan.asset_url # EmptyUrl

-----------------------------------------------------------------------------
(* The plan specification: a release-mode and a git-synced project that    *)
(* update_repo installs and syncs and whose deployed folders the user      *)
(* deletes, while the forge publishes its next release, and then check    *)
(* passes, with and without a WoW directory, over what that left in the    *)
(* store and on disk.                                                      *)

WellStore ==
    << <<MkUrl("https", GithubCom, <<"o", "n">>), "addon">>,
       <<MkUrl("https", CodebergOrg, <<"g", "n">>), "addon_git">> >>

WellRemotes == {None, Some(GitHead("c1", "master"))}

InitWell ==
    /\ repos = BuildRows(WellStore, {})
    /\ nextId = Cardinality(BuildRows(WellStore, {})) + 1
    /\ installs = {}
    /\ rate_limits = {}
    /\ token = FALSE
    /\ now = 0
    /\ clones = {}
    /\ last = InitLast
    /\ forge = ApplyWorlds[1]
    /\ disk = << >>
    /\ dlcache = << >>
    /\ IdleRun
    /\ NoPure

NextWell ==
    \/ \E wow \in BOOLEAN : StartPass(wow, "")
    \/ \E id \in Ids : TaskStart(id, "")
    \/ \E id \in Ids : \E fault \in {PlainMsg("none"), Msg("rate", Some(50), None)} :
          TaskFetched(id, fault)
    \/ \E id \in Ids, remote \in WellRemotes : TaskGitAnswered(id, remote, "")
    \/ BatchJoin
    \/ FinishPass
    \/ \E id \in Ids : pass = NoPass /\ UpdateRepo(id, FALSE, "")
    \/ Return
    \/ NextRepo("")
    \/ BuildFetched(PlainMsg("none"))
    \/ \E remote \in WellRemotes : BuildGitAnswered(remote, "")
    \/ PlanReady
    \/ OneRelease(FALSE)
    \/ Downloaded("good")
    \/ Verify
    \/ \E k \in 0..MaxSteps : Install(k)
    \/ Cleanup("")
    \/ PersistClear("")
    \/ PersistAdd("")
    \/ SetState("")
    \/ \E remote \in WellRemotes : GitSync(remote, "")
    \/ \E k \in 0..MaxSteps : GitDeploy(k, "")
    \/ \E e \in installs : pass = NoPass /\ UserDeletes(e.path)
    \/ pass = NoPass /\ forge = ApplyWorlds[1] /\ Publish(ApplyWorlds[2])
    \/ \E t \in ApplyTimes : Tick(t)

SpecWell == InitWell /\ [][NextWell]_vars

WellFormed(p) ==
    /\ p.error # None
          => (p.asset_url = EmptyUrl /\ ~p.repair_needed /\ ~p.not_modified)
    /\ p.repair_needed => p.asset_url # EmptyUrl
    /\ p.not_modified => (p.asset_url # EmptyUrl <=> p.repair_needed)
    /\ ~p.applied

\* the plans a check pass has built, and the plans it returned
PassPlans ==
    {task[id].plan : id \in {i \in DOMAIN task : task[i].pc = "done"}}
        \cup (IF pass.status = "ok" THEN {pass.plans[i] : i \in 1..Len(pass.plans)} ELSE {})

\* C36: in every plan of check_updates, of a release-mode or a git-synced
\* project, an error comes with an empty asset_url and with repair_needed
\* and not_modified false, repair_needed comes with a non-empty asset_url,
\* a not_modified plan has a non-empty asset_url exactly when repair_needed
\* is true, and applied is false.
C36_PlanWellFormed == \A p \in PassPlans : WellFormed(p)

\* witness: a pass returned the not-modified plan of a release-mode project
\* whose files are gone, a repair from the recorded URL
C36_Witness ==
    /\ pass.status = "ok"
    /\ \E i \in 1..Len(pass.plans) :
          /\ pass.plans[i].not_modified
          /\ pass.plans[i].repair_needed
          /\ pass.plans[i].asset_url # EmptyUrl

\* a pass returned a not-modified plan with nothing to do
C36_NotModifiedIdle ==
    /\ pass.status = "ok"
    /\ \E i \in 1..Len(pass.plans) :
          /\ pass.plans[i].not_modified
          /\ ~pass.plans[i].repair_needed
          /\ pass.plans[i].asset_url = EmptyUrl

\* a pass returned the repair plan of a git-synced project
C36_GitRepair ==
    /\ pass.status = "ok"
    /\ \E i \in 1..Len(pass.plans) :
          /\ pass.plans[i].mode = "addon_git"
          /\ pass.plans[i].repair_needed
          /\ pass.plans[i].asset_url # EmptyUrl

\* a pass returned the plan of a fetched release, an update to install
C36_Update ==
    /\ pass.status = "ok"
    /\ \E i \in 1..Len(pass.plans) :
          /\ pass.plans[i].mode # "addon_git"
          /\ pass.plans[i].current = Some("v1")
          /\ pass.plans[i].latest = "v2"
          /\ pass.plans[i].asset_url # EmptyUrl
          /\ ~pass.plans[i].repair_needed

\* a pass returned plans with errors, of both modes
C36_Errors ==
    /\ pass.status = "ok"
    /\ \E i, j \in 1..Len(pass.plans) :
          /\ pass.plans[i].mode = "addon_git"
          /\ pass.plans[i].error # None
          /\ pass.plans[j].mode # "addon_git"
          /\ pass.plans[j].error # None

-----------------------------------------------------------------------------
(* Order of persistence in apply_one, under the apply specification.       *)

\* the targets apply_one recorded are on disk
RecordsDeployed == \A i \in 1..Len(ap.recs) : ap.recs[i].path \in DOMAIN disk

\* the step writes last_version or the installed asset identity of project id
WritesState(id) ==
    /\ Tracked(id)
    /\ InstalledState(Row2(repos', id)) # InstalledState(Row(id))

\* the step writes the manifest of project id
WritesManifest(id) == Db_list_installs(installs', id) # Db_list_installs(installs, id)

\* the step ends an apply_one call with an error
ApplyFails == ap.pc \in OnePcs /\ ap'.pc \notin OnePcs /\ ap'.err # ""

C37_Step ==
    /\ \A id \in Ids :
          WritesState(id) =>
              /\ ap.pc = "state"
              /\ ap.plan.repo_id = id
              /\ ap.known
              /\ RecordsDeployed
              /\ Db_list_installs(installs, id) = ManifestOf(id, ap.recs)
    /\ \A id \in Ids :
          WritesManifest(id) =>
              /\ ap.pc \in {"clear", "add"}
              /\ ap.plan.repo_id = id
              /\ ap.known
              /\ RecordsDeployed
              /\ InstalledState(Row(id)) = ap.row0
    /\ ApplyFails =>
          InstalledState(Row2(repos', ap.plan.repo_id)) = ap.row0

\* C37: in both modes last_version and the installed asset identity of a
\* project are written only by apply_one, after it has written every
\* record of the project's new manifest, and the manifest only after every
\* target has been deployed; when apply_one fails the stored state is the
\* one it found.
C37_PersistOrder == [][C37_Step]_vars

\* witness: the files were deployed and the manifest replaced, the write of
\* the installed state failed, and the row still records the old state
C37_Witness ==
    /\ ap.pc = "failed"
    /\ ap.err = "store"
    /\ ap.known
    /\ ap.row0[1] # None
    /\ Db_list_installs(installs, ap.plan.repo_id) = ManifestOf(ap.plan.repo_id, ap.recs)
    /\ ap.inst0 # ManifestOf(ap.plan.repo_id, ap.recs)
    /\ InstalledState(Row(ap.plan.repo_id)) = ap.row0
    /\ ap.row0 # PlanState(ap.plan)

\* a git sync wrote its state after its manifest
C37_GitWritten ==
    /\ ap.pc = "ok"
    /\ ap.lastok
    /\ ap.plan.mode = "addon_git"
    /\ ap.synced # None
    /\ InstalledState(Row(ap.plan.repo_id)) # ap.row0
    /\ Db_list_installs(installs, ap.plan.repo_id) = ManifestOf(ap.plan.repo_id, ap.recs)

-----------------------------------------------------------------------------
(* The ownership specification: two release-mode projects on github.com    *)
(* whose archives both hold an addon folder A (a.zip of o/n holds A and B, *)
(* c.zip of p/n holds A), installed by update_repo and removed, with their *)
(* files, by remove_repo.                                                  *)

OwnStore ==
    << <<MkUrl("https", GithubCom, <<"o", "n">>), "addon">>,
       <<MkUrl("https", GithubCom, <<"p", "n">>), "addon">> >>

OwnForge ==
    (<<GithubCom, <<"o", "n">>>> :>
        Some([tag |-> "v1", etag |-> Some("e1"),
              assets |-> <<Asset(Some("a1"), <<"a", ".", "zip">>,
                                 DownloadUrl(GithubCom, "a.zip"), Some(1), None)>>]))
    @@ (<<GithubCom, <<"p", "n">>>> :>
        Some([tag |-> "v1", etag |-> Some("e2"),
              assets |-> <<Asset(Some("a2"), <<"c", ".", "zip">>,
                                 DownloadUrl(GithubCom, "c.zip"), Some(1), None)>>]))

InitOwn ==
    /\ repos = BuildRows(OwnStore, {})
    /\ nextId = Cardinality(BuildRows(OwnStore, {})) + 1
    /\ installs = {}
    /\ rate_limits = {}
    /\ token = FALSE
    /\ now = 0
    /\ clones = {}
    /\ last = InitLast
    /\ forge = OwnForge
    /\ disk = << >>
    /\ dlcache = << >>
    /\ IdleRun
    /\ NoPure

NextOwn ==
    \/ \E id \in Ids : UpdateRepo(id, FALSE, "")
    \/ \E id \in Ids : ReinstallRepo(id, FALSE, "")
    \/ Return
    \/ NextRepo("")
    \/ BuildFetched(PlainMsg("none"))
    \/ PlanReady
    \/ OneRelease(FALSE)
    \/ Downloaded("good")
    \/ Verify
    \/ \E k \in 0..MaxSteps : Install(k)
    \/ Cleanup("")
    \/ PersistClear("")
    \/ PersistAdd("")
    \/ SetState("")
    \/ \E id \in Ids : ap.pc = "idle" /\ RemoveRepo(id, TRUE, TRUE, "")

SpecOwn == InitOwn /\ [][NextOwn]_vars

\* the manifest paths of project id
PathsOf(id) == {e.path : e \in Db_list_installs(installs, id)}

\* C38: no path on disk is listed in the manifests of two tracked projects.
C38_ExclusivePaths ==
    \A a, b \in Ids :
        (Tracked(a) /\ Tracked(b) /\ a # b)
            => PathsOf(a) \cap PathsOf(b) \cap DOMAIN disk = {}

\* the project an apply or a removal is about
Acting ==
    IF ap.pc \in OnePcs THEN {ap.plan.repo_id}
    ELSE IF last' # last /\ last'.op = "remove_repo" THEN {last'.id}
    ELSE {}

C38_Step ==
    \A a \in Acting : \A b \in Ids \ {a} :
        Tracked(b) =>
            \A p \in PathsOf(b) \cap DOMAIN disk :
                p \in DOMAIN disk' /\ disk'[p] = disk[p]

\* C38, the consequence: installing, re-installing or removing a project
\* leaves every path of another project's manifest as it is.
C38_ForeignPathsKept == [][C38_Step]_vars

\* both projects are installed and both manifests list the folder A, which
\* holds the files of the project installed last
C38_Shared ==
    /\ ap.pc = "ok"
    /\ ap.lastok
    /\ Tracked(1) /\ Tracked(2)
    /\ AddonsPath("A") \in PathsOf(1) \cap PathsOf(2)
    /\ AddonsPath("A") \in DOMAIN disk
    /\ disk[AddonsPath("A")].aid = AssetId("a2", EmptyUrl)
    /\ Row(1).installed_asset_id = Some(AssetId("a1", EmptyUrl))

\* the removal of p/n deleted the folder A that the manifest of o/n lists
C38_DeletedByRemoval ==
    /\ last.op = "remove_repo"
    /\ last.ok
    /\ last.id = 2
    /\ Tracked(1)
    /\ AddonsPath("A") \in PathsOf(1)
    /\ AddonsPath("A") \notin DOMAIN disk
    /\ AddonsPath("B") \in DOMAIN disk

-----------------------------------------------------------------------------
(* Installed implies deployed, under the raw-mode specification.           *)

\* apply_one returned Ok for the plan in hand and the row records its asset
AppliedAndRecorded ==
    /\ ap.pc = "ok"
    /\ ap.lastok
    /\ ap.plans # << >>
    /\ ap.plans[Len(ap.plans)].applied
    /\ Tracked(ap.plan.repo_id)
    /\ Row(ap.plan.repo_id).installed_asset_id = Some(ap.plan.asset_id)

\* C39: when an apply has succeeded and recorded the identity of the
\* installed asset, the manifest of the project is not empty.
C39_InstalledHasManifest ==
    AppliedAndRecorded => Db_list_installs(installs, ap.plan.repo_id) # {}

\* C39 for an asset that is not an archive: the file or the DLL is recorded
C39_FileHasManifest ==
    (AppliedAndRecorded /\ ~looks_like_zip(ap.plan.asset_name))
        => Db_list_installs(installs, ap.plan.repo_id) # {}

\* update_repo returned the applied plan of a.zip for the raw-mode project,
\* the row records v2 as installed, and the manifest is empty
C39_NothingDeployed ==
    /\ AppliedAndRecorded
    /\ ap.plan.mode = "raw"
    /\ looks_like_zip(ap.plan.asset_name)
    /\ Row(ap.plan.repo_id).last_version = Some("v2")
    /\ Db_list_installs(installs, ap.plan.repo_id) = {}

\* a DLL or a plain file was installed and recorded
C39_FileRecorded ==
    /\ AppliedAndRecorded
    /\ ~looks_like_zip(ap.plan.asset_name)
    /\ Db_list_installs(installs, ap.plan.repo_id) # {}

-----------------------------------------------------------------------------
(* Convergence, under the plan specification: update_repo has returned Ok  *)
(* after apply_one, its caller still holds the plan, and a check pass runs *)
(* next.  In that specification the forge publishes and the user deletes   *)
(* only while no call is in progress or held, so between the apply and the *)
(* pass the forge and the deployed files stay as they are; the clock may   *)
(* advance past the cache window.                                          *)

\* apply_one succeeded for project id and nothing but check passes followed
AppliedLast(id) ==
    /\ ap.pc = "ok"
    /\ ap.lastok
    /\ ap.plan.repo_id = id

\* the plan build t ended, the forge or the remote having answered
PlanAnswered(t) ==
    /\ t.pc = "done"
    /\ IF t.r.mode = "addon_git"
       THEN t.plan.error # Some(PlainMsg("Git sync check failed"))
       ELSE t.got # << >> /\ t.got[Len(t.got)] # "error"

UpToDate(p) == p.asset_url = EmptyUrl /\ ~p.repair_needed /\ p.error = None

InstalledLatest ==
    ap.plan.mode # "addon_git"
        => /\ ForgeKey(detect_repo(ap.plan.url)) \in DOMAIN forge
           /\ forge[ForgeKey(detect_repo(ap.plan.url))] # None
           /\ Unwrap(forge[ForgeKey(detect_repo(ap.plan.url))]).tag = ap.plan.latest

C40_GitUpToDate ==
    \E id \in DOMAIN task :
        /\ AppliedLast(id)
        /\ PlanAnswered(task[id])
        /\ pass.wow
        /\ ap.plan.mode = "addon_git"
        /\ UpToDate(task[id].plan)

\* v1 was installed from a cached answer while the forge already had v2:
\* the next plan, built after the cache window, asks for v2
C40_InstalledFromCache ==
    \E id \in DOMAIN task :
        /\ AppliedLast(id)
        /\ PlanAnswered(task[id])
        /\ ap.plan.latest = "v1"
        /\ task[id].plan.latest = "v2"
        /\ task[id].plan.asset_url # EmptyUrl

\* a check pass without a WoW directory: the plan of the git-synced project
\* that was just synced carries an error
C40_GitNeedsWow ==
    \E id \in DOMAIN task :
        /\ AppliedLast(id)
        /\ PlanAnswered(task[id])
        /\ ~pass.wow
        /\ ap.plan.mode = "addon_git"
        /\ task[id].plan.error # None

====
